---- MODULE Spec2Model ----
(***************************************************************************)
(* State-machine model of the middleware primitives of agent-enterprise-   *)
(* pack: rate limiter, circuit breaker, retry executor, context window     *)
(* manager, TTL cache, agent sessions, alert manager, cost tracker,        *)
(* degradation manager and SLO tracker.  Every primitive owns its state;   *)
(* they share one clock, `now`, standing for time.time() in whole ticks.   *)
(* Each primitive has its own specification (SpecRL, SpecTB, SpecCB, ...)  *)
(* in which the other primitives stay in their constructed state.          *)
(***************************************************************************)
EXTENDS Integers, Sequences, FiniteSets, TLC

VARIABLES
    now,            \* time.time(), in ticks
    \* ---- rate limiter: InMemoryBackend + RateLimiter (rate_limiter.py)
    rl_limit,       \* RateLimiter.requests_per_window
    rl_window,      \* RateLimiter.window_seconds
    rl_burst,       \* RateLimiter.burst_limit
    rl_windows,     \* InMemoryBackend._windows: key -> (timestamp -> count)
    rl_tokens,      \* InMemoryBackend._tokens: key -> <<tokens, last_update>> or NoBucket
    rl_lock,        \* InMemoryBackend._lock: "free" or "held"
    rl_resp,        \* the RateLimitResponse of the last check, or NoResp
    rl_allowed,     \* history: key -> (timestamp -> number of ALLOWED checks made then)
    rl_calls,       \* history: number of calls made on the backend
    rl_run,         \* history: key -> the checks made since its window was last empty,
                    \* and when its last two checks, if DENIED, said to retry
    tb_pc,          \* position of the task running a token-bucket call
    tb_key,         \* the key of the call in progress
    tb_caller,      \* who called get_tokens: "consume", "check" or "direct"
    tb_success,     \* consume_tokens' return value, kept by _check_token_bucket
    tb_now,         \* the `now` consume_tokens read on entry
    \* ---- circuit breaker (circuit_breaker.py)
    cb,             \* the CircuitBreaker object: its config, fields and metrics
    cbh,            \* history of the calls made on it, and the last call's return
    \* ---- retry executor (retry_handler.py)
    rt,             \* a RetryHandler and the execute call running on it
    \* ---- context window manager (context_manager.py)
    ctx,            \* a ContextWindowManager and the last call made on it
    \* ---- TTL cache, in-memory backend (ttl_cache.py)
    cache,          \* an InMemoryBackend: max_size and the OrderedDict _cache
    ch,             \* history: the last call and, per key, its last write
    \* ---- SLO tracking (slo_definitions.py)
    slo,            \* an SLOTracker, the SLOManager entry over it, the call running
    \* ---- rate limiter on the Redis backend: the token-bucket script
    rds,            \* the buckets the script keeps, and the history of the checks
    \* ---- concurrent callers of the sliding-window check (rate_limiter.py)
    cc,             \* per caller: its position in check(), its locals, its result
    \* ---- agent sessions: AgentSessionCache over the in-memory backend (ttl_cache.py)
    ses,            \* one session: its cache entry, the objects it refers to, the callers
    \* ---- alerting: AlertManager (alerting.py)
    al,             \* an AlertManager, the history of the alerts sent through it
    \* ---- cost tracking: CostTracker (cost_tracker.py)
    ct,             \* a CostTracker, the records it returned, the last summary
    \* ---- graceful degradation: DegradationManager (graceful_degradation.py)
    dg,             \* one fallback chain, the execute call running on it, its history
    \* ---- multi-tier rate limiting: MultiTierRateLimiter (rate_limiter.py)
    mt              \* the tier limiters, the windows of their backends, the last check

RLVars == <<rl_limit, rl_window, rl_burst, rl_windows, rl_tokens, rl_lock, rl_resp,
            rl_allowed, rl_calls, rl_run, tb_pc, tb_key, tb_caller, tb_success, tb_now>>

CBVars == <<cb, cbh>>

RTVars == <<rt>>

CtxVars == <<ctx>>

CacheVars == <<cache, ch>>

SLOVars == <<slo>>

RedisVars == <<rds>>

ConcVars == <<cc>>

SesVars == <<ses>>

AlertVars == <<al>>

CostVars == <<ct>>

DegVars == <<dg>>

TierVars == <<mt>>

vars == <<now, RLVars, CBVars, RTVars, CtxVars, CacheVars, SLOVars,
          RedisVars, ConcVars, SesVars, AlertVars, CostVars, DegVars,
          TierVars>>

\* what the operations of one primitive leave alone: the other primitives
OthersRL == <<CBVars, RTVars, CtxVars, CacheVars, SLOVars, RedisVars,
              ConcVars, SesVars, AlertVars, CostVars, DegVars, TierVars>>
OthersCB == <<RLVars, RTVars, CtxVars, CacheVars, SLOVars, RedisVars,
              ConcVars, SesVars, AlertVars, CostVars, DegVars, TierVars>>
OthersRT == <<RLVars, CBVars, CtxVars, CacheVars, SLOVars, RedisVars,
              ConcVars, SesVars, AlertVars, CostVars, DegVars, TierVars>>
OthersCtx == <<RLVars, CBVars, RTVars, CacheVars, SLOVars, RedisVars,
               ConcVars, SesVars, AlertVars, CostVars, DegVars, TierVars>>
OthersCache == <<RLVars, CBVars, RTVars, CtxVars, SLOVars, RedisVars,
                 ConcVars, SesVars, AlertVars, CostVars, DegVars, TierVars>>
OthersSLO == <<RLVars, CBVars, RTVars, CtxVars, CacheVars, RedisVars,
               ConcVars, SesVars, AlertVars, CostVars, DegVars, TierVars>>
OthersRedis == <<RLVars, CBVars, RTVars, CtxVars, CacheVars, SLOVars,
                 ConcVars, SesVars, AlertVars, CostVars, DegVars, TierVars>>
OthersConc == <<RLVars, CBVars, RTVars, CtxVars, CacheVars, SLOVars,
                RedisVars, SesVars, AlertVars, CostVars, DegVars, TierVars>>
OthersRLConc == <<CBVars, RTVars, CtxVars, CacheVars, SLOVars, RedisVars,
                  SesVars, AlertVars, CostVars, DegVars, TierVars>>
OthersSes == <<RLVars, CBVars, RTVars, CtxVars, CacheVars, SLOVars,
               RedisVars, ConcVars, AlertVars, CostVars, DegVars, TierVars>>
OthersAlert == <<RLVars, CBVars, RTVars, CtxVars, CacheVars, SLOVars,
                 RedisVars, ConcVars, SesVars, CostVars, DegVars, TierVars>>
OthersCost == <<RLVars, CBVars, RTVars, CtxVars, CacheVars, SLOVars,
                RedisVars, ConcVars, SesVars, AlertVars, DegVars, TierVars>>
OthersDeg == <<RLVars, CBVars, RTVars, CtxVars, CacheVars, SLOVars,
               RedisVars, ConcVars, SesVars, AlertVars, CostVars, TierVars>>
OthersTier == <<RLVars, CBVars, RTVars, CtxVars, CacheVars, SLOVars,
                RedisVars, ConcVars, SesVars, AlertVars, CostVars, DegVars>>

(***************************************************************************)
(* Bounds of the model.                                                    *)
(***************************************************************************)
MaxTime == 4        \* the clock runs from StartTime to MaxTime
MaxLimit == 2       \* requests_per_window is drawn from 1..MaxLimit
MaxWindow == 2      \* window_seconds is drawn from 1..MaxWindow
MaxChecks == 5      \* calls made on one rate-limit backend

StartTime == 1      \* the clock's first reading (time.time() is never 0)

Keys == {"k1", "k2"}
Times == StartTime..MaxTime

Max(a, b) == IF a >= b THEN a ELSE b
Min(a, b) == IF a <= b THEN a ELSE b

RECURSIVE SumOver(_, _)
\* sum(f.values()) for a function f restricted to the set S of its keys
SumOver(f, S) ==
    IF S = {} THEN 0
    ELSE LET x == CHOOSE y \in S : TRUE IN f[x] + SumOver(f, S \ {x})

SetMin(S) == CHOOSE x \in S : \A y \in S : x <= y

(***************************************************************************)
(* Rate limiter, sliding window.                                           *)
(***************************************************************************)
NoResp == [result |-> "none"]
NoBucket == <<-1, -1>>

\* the dict comprehension of get_and_increment: entries newer than window_start
RLClean(w, window_start) == {ts \in DOMAIN w : ts > window_start}

\* get_and_increment(key, window_seconds, limit) -> <<count_after, reset_at, windows'>>
GetAndIncrement(key, window_seconds) ==
    LET window_start == now - window_seconds
        old == rl_windows[key]
        kept == RLClean(old, window_start)
        current_count == SumOver(old, kept)
        newdom == kept \cup {now}
        windows == [ts \in newdom |->
                      IF ts = now THEN (IF now \in kept THEN old[now] ELSE 0) + 1
                      ELSE old[ts]]
        reset_at == SetMin(newdom) + window_seconds
    IN <<current_count + 1, reset_at, windows>>

\* the decision of _check_sliding_window
RLDeniedMut(count, limit) == count > limit + 1
RLDeniedAtLimit(count, limit) == count >= limit
RLDenied(count, limit) == count > limit

\* RateLimiter.check(key) with algorithm SLIDING_WINDOW
CheckSlidingWindow(key) ==
    /\ rl_lock = "free"
    /\ LET r == GetAndIncrement(key, rl_window)
           count == r[1]
           reset_at == r[2]
           denied == RLDenied(count, rl_limit)
       IN /\ rl_calls < MaxChecks
          /\ rl_calls' = rl_calls + 1
          /\ rl_windows' = [rl_windows EXCEPT ![key] = r[3]]
          /\ rl_resp' = IF denied
                        THEN [result |-> "denied", key |-> key, limit |-> rl_limit,
                              remaining |-> 0, reset_at |-> reset_at,
                              retry_after |-> Max(0, reset_at - now),
                              current_count |-> count, at |-> now]
                        ELSE [result |-> "allowed", key |-> key, limit |-> rl_limit,
                              remaining |-> Max(0, rl_limit - count),
                              reset_at |-> reset_at, retry_after |-> -1,
                              current_count |-> count, at |-> now]
          /\ rl_allowed' = IF denied THEN rl_allowed
                           ELSE [rl_allowed EXCEPT ![key][now] = @ + 1]
          /\ rl_run' = [rl_run EXCEPT ![key] =
                            [n |-> IF count = 1 THEN 1 ELSE @.n + 1,
                             first |-> IF count = 1 THEN now ELSE @.first,
                             prev_ready |-> @.ready,
                             ready |-> IF denied THEN now + Max(0, reset_at - now)
                                       ELSE 0]]
    /\ UNCHANGED <<now, rl_limit, rl_window, rl_burst, rl_tokens, rl_lock,
                   tb_pc, tb_key, tb_caller, tb_success, tb_now,
                   OthersRL>>

\* time passes between two calls
RLTick ==
    /\ now < MaxTime
    /\ now' = now + 1
    /\ slo' = [slo EXCEPT !.cleaned = FALSE]
    /\ UNCHANGED <<OthersSLO>>

\* the state after InMemoryBackend() and RateLimiter(...) are constructed
RLConstructed ==
    /\ rl_windows = [k \in Keys |-> <<>>]
    /\ rl_tokens = [k \in Keys |-> NoBucket]
    /\ rl_lock = "free"
    /\ rl_resp = NoResp
    /\ rl_allowed = [k \in Keys |-> [t \in Times |-> 0]]
    /\ rl_calls = 0
    /\ rl_run = [k \in Keys |-> [n |-> 0, first |-> 0, prev_ready |-> 0, ready |-> 0]]
    /\ tb_pc = "idle"
    /\ tb_key = "k1"
    /\ tb_caller = "none"
    /\ tb_success = FALSE
    /\ tb_now = 0

\* a limiter nobody calls: the state the other specifications leave it in
RLQuiet ==
    /\ rl_limit = 1
    /\ rl_window = 1
    /\ rl_burst = 1
    /\ RLConstructed

\* what RateLimiter(...) fixes
RLConfigured ==
    /\ rl_limit \in 1..MaxLimit
    /\ rl_window \in 1..MaxWindow
    /\ rl_burst = rl_limit

RLNext ==
    \/ \E key \in Keys : CheckSlidingWindow(key)
    \/ RLTick

\* ALLOWED checks on key k with a timestamp in the window (s - W, s]
AllowedInWindow(k, s) ==
    SumOver(rl_allowed[k], {t \in Times : t > s - rl_window /\ t <= s})

C14_RateLimitBoundary ==
    (rl_resp # NoResp) =>
        LET run == rl_run[rl_resp.key]
        IN /\ run.n <= rl_limit => rl_resp.result = "allowed"
           /\ (run.n = rl_limit + 1 /\ rl_resp.at - run.first < rl_window)
                 => rl_resp.result = "denied"

\* the (L+1)-th check of a fresh window, made before the window elapsed but
\* at a later time than the first
C14_Witness ==
    /\ rl_resp # NoResp
    /\ rl_run[rl_resp.key].n = rl_limit + 1
    /\ rl_resp.at > rl_run[rl_resp.key].first
    /\ rl_resp.at - rl_run[rl_resp.key].first < rl_window
    /\ rl_resp.result = "denied"

\* C34: when check(K) returned DENIED with retry_after r at time t, the next
\* check(K), if made at t + r or later, returns ALLOWED.
C34_RetryAfterHonoured ==
    (rl_resp # NoResp) =>
        LET run == rl_run[rl_resp.key]
        IN (run.prev_ready > 0 /\ rl_resp.at >= run.prev_ready)
              => rl_resp.result = "allowed"

Cost == 1           \* the default cost of RateLimiter.check

\* min(max_tokens, tokens + elapsed * refill_rate), in scaled units
Refill(tokens, elapsed) == Min(rl_burst * rl_window, tokens + elapsed * rl_limit)

\* _check_token_bucket: await self._backend.consume_tokens(...)
TBCheck(key) ==
    /\ tb_pc = "idle"
    /\ rl_calls < MaxChecks
    /\ rl_calls' = rl_calls + 1
    /\ tb_pc' = "consume_lock"
    /\ tb_key' = key
    /\ tb_now' = now
    /\ UNCHANGED <<now, rl_run, rl_limit, rl_window, rl_burst, rl_windows, rl_tokens,
                   rl_lock,
                   rl_resp, rl_allowed, tb_caller, tb_success,
                   OthersRL>>

\* consume_tokens: `with self._lock:` entered, then `await self.get_tokens(...)`
TBConsumeAcquire ==
    /\ tb_pc = "consume_lock"
    /\ rl_lock = "free"
    /\ rl_lock' = "held"
    /\ tb_pc' = "get_tokens_lock"
    /\ tb_caller' = "consume"
    /\ UNCHANGED <<now, rl_run, rl_limit, rl_window, rl_burst, rl_windows, rl_tokens,
                   rl_resp,
                   rl_allowed, rl_calls, tb_key, tb_success, tb_now,
                   OthersRL>>

\* a caller of the backend's get_tokens outside any check
TBGetTokensCall(key) ==
    /\ tb_pc = "idle"
    /\ rl_calls < MaxChecks
    /\ rl_calls' = rl_calls + 1
    /\ tb_pc' = "get_tokens_lock"
    /\ tb_key' = key
    /\ tb_caller' = "direct"
    /\ UNCHANGED <<now, rl_run, rl_limit, rl_window, rl_burst, rl_windows, rl_tokens,
                   rl_lock,
                   rl_resp, rl_allowed, tb_success, tb_now,
                   OthersRL>>

\* the body of get_tokens under the lock -> <<available, last_update, _tokens'>>
GetTokensBody(key) ==
    IF rl_tokens[key] = NoBucket
    THEN <<rl_burst * rl_window, now,
           [rl_tokens EXCEPT ![key] = <<rl_burst * rl_window, now>>]>>
    ELSE <<Refill(rl_tokens[key][1], now - rl_tokens[key][2]), rl_tokens[key][2],
           rl_tokens>>

TBResponse(key, success, available) ==
    IF success
    THEN [result |-> "allowed", key |-> key, limit |-> rl_burst,
          remaining |-> available \div rl_window, reset_at |-> now + rl_window,
          retry_after |-> -1, tokens |-> available, at |-> now]
    ELSE [result |-> "denied", key |-> key, limit |-> rl_burst,
          remaining |-> available \div rl_window,
          reset_at |-> now + (Cost * rl_window - available) \div rl_limit,
          retry_after |-> (Cost * rl_window - available) \div rl_limit,
          tokens |-> available, at |-> now]

\* get_tokens takes the lock, runs its body and returns to its caller, which runs
\* on to its next lock acquisition or to its return
TBGetTokensAcquire ==
    /\ tb_pc = "get_tokens_lock"
    /\ rl_lock = "free"
    /\ LET g == GetTokensBody(tb_key)
           available == g[1]
           last_update == g[2]
       IN CASE tb_caller = "direct" ->
                 /\ rl_tokens' = g[3]
                 /\ tb_pc' = "idle"
                 /\ rl_resp' = [result |-> "tokens", key |-> tb_key,
                                tokens |-> available, at |-> now]
                 /\ UNCHANGED <<rl_lock, tb_caller, tb_success, rl_allowed>>
            [] tb_caller = "consume" ->
                 \* the rest of consume_tokens, then _check_token_bucket's get_tokens
                 /\ rl_tokens' =
                      IF available >= Cost * rl_window
                      THEN [g[3] EXCEPT ![tb_key] =
                              <<Refill(available, tb_now - last_update)
                                  - Cost * rl_window, tb_now>>]
                      ELSE g[3]
                 /\ tb_success' = (available >= Cost * rl_window)
                 /\ rl_lock' = "free"
                 /\ tb_pc' = "get_tokens_lock"
                 /\ tb_caller' = "check"
                 /\ UNCHANGED <<rl_resp, rl_allowed>>
            [] OTHER ->
                 /\ rl_tokens' = g[3]
                 /\ tb_pc' = "idle"
                 /\ rl_resp' = TBResponse(tb_key, tb_success, available)
                 /\ rl_allowed' = IF tb_success
                                  THEN [rl_allowed EXCEPT ![tb_key][now] = @ + 1]
                                  ELSE rl_allowed
                 /\ UNCHANGED <<rl_lock, tb_caller, tb_success>>
    /\ UNCHANGED <<now, rl_run, rl_limit, rl_window, rl_burst, rl_windows, rl_calls,
                   tb_key,
                   tb_now,
                   OthersRL>>

TBTick ==
    /\ now < MaxTime
    /\ now' = now + 1
    /\ slo' = [slo EXCEPT !.cleaned = FALSE]
    /\ UNCHANGED <<OthersSLO>>

\* the steps of a call in progress
TBStep == TBConsumeAcquire \/ TBGetTokensAcquire

TBNext ==
    \/ \E key \in Keys : TBCheck(key)
    \/ \E key \in Keys : TBGetTokensCall(key)
    \/ TBConsumeAcquire
    \/ TBGetTokensAcquire
    \/ TBTick

\* C8: a token-bucket check on the in-memory backend is non-blocking: whenever
\* a call is in progress its next step can be taken, so it runs to its return;
\* this includes the get_tokens call consume_tokens makes inside its own
\* critical section.
C8_TokenBucketNonBlocking == (tb_pc # "idle") => ENABLED TBStep

(***************************************************************************)
(* Token bucket on the Redis backend.  TOKEN_BUCKET_SCRIPT runs atomically *)
(* on the server; a bucket is <<tokens, last_update, written_at>>, tokens  *)
(* in the same scaled units, written_at the time of the HMSET from which   *)
(* the key's EXPIRE runs.  The caller reads time.time() before it awaits   *)
(* the script, so the script may run one tick after the `now` it is given. *)
(***************************************************************************)
MaxRedisCalls == 4      \* checks made through one RedisBackend

NoHash == <<-1, -1, -1>>

\* RedisBackend() with no key stored, and the checks made through it
RedisNew ==
    [buckets |-> [k \in Keys |-> NoHash],
     consumed |-> [k \in Keys |-> [t \in Times |-> 0]],
     calls |-> 0, resp |-> NoResp]

RedisQuiet == rds = RedisNew

\* EXPIRE key, math.ceil(max_tokens / refill_rate) + 1
BucketTtl == (rl_burst * rl_window + rl_limit - 1) \div rl_limit + 1

\* HMGET key tokens last_update: nothing once the key has expired
StoredBucket(key) ==
    LET b == rds.buckets[key]
    IN IF b # NoHash /\ now - b[3] >= BucketTtl THEN NoHash ELSE b

\* math.min(max_tokens, tokens + (elapsed * refill_rate))
ScriptRefillMut(tokens, elapsed) == tokens + elapsed * rl_limit
ScriptRefill(tokens, elapsed) ==
    Min(rl_burst * rl_window, tokens + elapsed * rl_limit)

\* TOKEN_BUCKET_SCRIPT with ARGV = {t, max_tokens, refill_rate, Cost}
\*   -> <<1 or 0, the bucket after the script>>
TokenBucketScript(key, t) ==
    LET b == StoredBucket(key)
        tokens0 == IF b = NoHash THEN rl_burst * rl_window ELSE b[1]
        last_update == IF b = NoHash THEN t ELSE b[2]
        tokens == ScriptRefill(tokens0, t - last_update)
    IN IF tokens >= Cost * rl_window
       THEN <<1, <<tokens - Cost * rl_window, t, now>>>>
       ELSE <<0, b>>

\* RedisBackend.get_tokens on the bucket b
RedisGetTokens(b) ==
    IF b = NoHash THEN rl_burst * rl_window
    ELSE Min(rl_burst * rl_window, b[1] + (now - b[2]) * rl_limit)

\* RateLimiter.check(key) with algorithm TOKEN_BUCKET on the Redis backend;
\* t is the time.time() consume_tokens read before the script ran
RedisCheck(key, t) ==
    /\ rds.calls < MaxRedisCalls
    /\ t >= StartTime
    /\ LET r == TokenBucketScript(key, t)
           success == r[1] = 1
       IN rds' = [rds EXCEPT
                    !.calls = @ + 1,
                    !.buckets[key] = r[2],
                    !.consumed[key][t] = IF success THEN @ + 1 ELSE @,
                    !.resp = TBResponse(key, success, RedisGetTokens(r[2]))]
    /\ UNCHANGED <<now, OthersRedis>>

\* time passes between two calls
RedisTick ==
    /\ now < MaxTime
    /\ now' = now + 1
    /\ slo' = [slo EXCEPT !.cleaned = FALSE]
    /\ UNCHANGED <<OthersSLO>>

RedisNext ==
    \/ \E key \in Keys, t \in {now - 1, now} : RedisCheck(key, t)
    \/ RedisTick

\* successful unit-cost consumes on key k at the times s..e
ConsumedBetween(k, s, e) == SumOver(rds.consumed[k], {t \in Times : s <= t /\ t <= e})

\* C17: for every key the stored token count never exceeds capacity, and over
\* any interval of length dt the number of successful unit-cost consumes on
\* that key is at most capacity + floor(dt * refill_rate).  A consume is
\* dated by the time.time() its call read and handed to the script, which is
\* the clock the bucket refills by.
C17_TokenBucketBound ==
    \A k \in Keys :
       /\ rds.buckets[k] # NoHash => rds.buckets[k][1] <= rl_burst * rl_window
       /\ \A s \in Times : \A e \in Times :
             s <= e => ConsumedBetween(k, s, e)
                         <= rl_burst + ((e - s) * rl_limit) \div rl_window

\* a check was denied although the interval since the first consume already
\* holds capacity + floor(dt * refill_rate) consumes, refills included
C17_Witness ==
    /\ rds.resp # NoResp
    /\ rds.resp.result = "denied"
    /\ \E s \in Times :
          /\ s < now
          /\ ConsumedBetween(rds.resp.key, s, now)
                = rl_burst + ((now - s) * rl_limit) \div rl_window
          /\ ConsumedBetween(rds.resp.key, s, now) > rl_burst

(***************************************************************************)
(* Concurrent sliding-window checks.  Callers are threads that each run    *)
(* one check(ConcKey) on the same InMemoryBackend; a thread can be         *)
(* preempted between any two statements, so get_and_increment is taken in  *)
(* steps: read the clock, acquire _lock, clean and count, add and release, *)
(* return.                                                                 *)
(***************************************************************************)
Callers == {"c1", "c2", "c3"}
ConcKey == "k1"

\* no caller has called yet
CcNew ==
    [pc |-> [c \in Callers |-> "idle"],
     t |-> [c \in Callers |-> 0],
     windows |-> [c \in Callers |-> <<>>],
     count |-> [c \in Callers |-> 0],
     result |-> [c \in Callers |-> "none"],
     overlap |-> FALSE]

ConcQuiet == cc = CcNew

\* threading.Lock: acquire succeeds only on a lock nobody holds
LockFreeMut(lock) == TRUE
LockFree(lock) == lock = "free"

\* now = time.time(); window_start = now - window_seconds
CcCall(c) ==
    /\ cc.pc[c] = "idle"
    /\ cc' = [cc EXCEPT !.pc[c] = "entered", !.t[c] = now,
                        !.overlap = @ \/ \E d \in Callers \ {c} :
                                            cc.pc[d] \notin {"idle", "done"}]
    /\ UNCHANGED <<now, RLVars, OthersRLConc>>

\* with self._lock: entry
CcAcquire(c) ==
    /\ cc.pc[c] = "entered"
    /\ LockFree(rl_lock)
    /\ rl_lock' = "held"
    /\ cc' = [cc EXCEPT !.pc[c] = "locked"]
    /\ UNCHANGED <<now, rl_limit, rl_window, rl_burst, rl_windows, rl_tokens,
                   rl_resp, rl_allowed, rl_calls, rl_run,
                   tb_pc, tb_key, tb_caller, tb_success, tb_now, OthersRLConc>>

\* windows = {ts: count ... if ts > window_start}; current_count = sum(...)
CcClean(c) ==
    /\ cc.pc[c] = "locked"
    /\ LET old == rl_windows[ConcKey]
           kept == RLClean(old, cc.t[c] - rl_window)
       IN cc' = [cc EXCEPT !.pc[c] = "counted",
                           !.windows[c] = [ts \in kept |-> old[ts]],
                           !.count[c] = SumOver(old, kept)]
    /\ UNCHANGED <<now, RLVars, OthersRLConc>>

\* windows[now] = windows.get(now, 0) + 1; self._windows[key] = windows;
\* and the exit of the with block
CcAdd(c) ==
    /\ cc.pc[c] = "counted"
    /\ LET w == cc.windows[c]
           t == cc.t[c]
       IN rl_windows' = [rl_windows EXCEPT ![ConcKey] =
                            [ts \in DOMAIN w \cup {t} |->
                                IF ts = t
                                THEN (IF t \in DOMAIN w THEN w[t] ELSE 0) + 1
                                ELSE w[ts]]]
    /\ rl_lock' = "free"
    /\ cc' = [cc EXCEPT !.pc[c] = "released"]
    /\ UNCHANGED <<now, rl_limit, rl_window, rl_burst, rl_tokens,
                   rl_resp, rl_allowed, rl_calls, rl_run,
                   tb_pc, tb_key, tb_caller, tb_success, tb_now, OthersRLConc>>

\* return current_count + 1, reset_at; then _check_sliding_window's decision
CcReturn(c) ==
    /\ cc.pc[c] = "released"
    /\ cc' = [cc EXCEPT !.pc[c] = "done",
                        !.count[c] = @ + 1,
                        !.result[c] = IF RLDenied(cc.count[c] + 1, rl_limit)
                                      THEN "denied" ELSE "allowed"]
    /\ UNCHANGED <<now, RLVars, OthersRLConc>>

\* time passes while the callers run
CcTick ==
    /\ now < MaxTime
    /\ now' = now + 1
    /\ slo' = [slo EXCEPT !.cleaned = FALSE]
    /\ UNCHANGED <<OthersSLO>>

ConcNext ==
    \/ \E c \in Callers :
          CcCall(c) \/ CcAcquire(c) \/ CcClean(c) \/ CcAdd(c) \/ CcReturn(c)
    \/ CcTick

\* the callers whose check has returned
CcDone == {c \in Callers : cc.pc[c] = "done"}

\* no check is in progress
CcQuiescent == \A c \in Callers : cc.pc[c] \in {"idle", "done"}

\* the checks made so far all fall in one window that was empty before them
CcFreshWindow == \A c \in CcDone : \A d \in CcDone : cc.t[c] - cc.t[d] < rl_window

\* C18: when N callers run check(K) concurrently against one in-memory
\* backend in a fresh window with limit L, once they have all returned every
\* caller has observed a distinct count_after in 1..N and exactly min(N, L)
\* of the calls have returned ALLOWED.
C18_ChecksLinearizable ==
    (CcQuiescent /\ CcFreshWindow) =>
        /\ {cc.count[c] : c \in CcDone} = 1..Cardinality(CcDone)
        /\ Cardinality({c \in CcDone : cc.result[c] = "allowed"})
              = Min(Cardinality(CcDone), rl_limit)

\* three callers overlapped in one fresh window with limit 2 and have returned
C18_Witness ==
    /\ CcDone = Callers
    /\ CcFreshWindow
    /\ cc.overlap
    /\ rl_limit = 2
    /\ Cardinality({c \in CcDone : cc.result[c] = "denied"}) = 1

(***************************************************************************)
(* Multi-tier rate limiting.  One MultiTierRateLimiter over two sliding-   *)
(* window RateLimiters.  A construction says whether the tier limiters     *)
(* were given the same backend (one RateLimitBackend instance, or the same *)
(* Redis) and whether they keep the default key_prefix; a backend's window *)
(* of a key is found under <<backend, full key>>.  solo keeps, per tier,   *)
(* the windows that the checks of that tier alone would have built.        *)
(***************************************************************************)
MaxTierChecks == 4      \* check calls made on one MultiTierRateLimiter

Tiers == <<"free", "pro">>          \* the keys of the tiers dict, in order
TierNames == {"free", "pro"}
TierLimit == [t \in TierNames |-> IF t = "free" THEN 1 ELSE 2]
\* the tier argument of check: a tier, None, or a name that is no tier
TierArgs == TierNames \cup {"none", "gold"}
TierKeys == {"u1", "u2"}
NoCheck == [tier |-> "none"]

\* the backend a tier's limiter calls and the key_prefix it was built with
BackendOf(m, tier) == IF m.shared_backend THEN "backend" ELSE tier
PrefixOf(m, tier) == IF m.default_prefix THEN "ratelimit" ELSE tier
\* check's full_key = f"{self.key_prefix}:{key}", under the limiter's backend
FullKey(m, tier, key) == <<BackendOf(m, tier), PrefixOf(m, tier), key>>
Slots == ({"backend"} \cup TierNames) \X ({"ratelimit"} \cup TierNames) \X TierKeys

\* MultiTierRateLimiter({'free': RateLimiter(1, window), 'pro': RateLimiter(2, window)})
TierNew(shared_backend, default_prefix, window) ==
    [shared_backend |-> shared_backend, default_prefix |-> default_prefix,
     window |-> window,
     windows |-> [slot \in Slots |-> <<>>],
     solo |-> [t \in TierNames |-> [k \in TierKeys |-> <<>>]],
     calls |-> 0, last |-> NoCheck]

TierQuiet == mt = TierNew(FALSE, FALSE, 1)

\* get_and_increment on the window w -> <<count_after, windows'>>
WindowGetAndIncrement(w, window_seconds) ==
    LET window_start == now - window_seconds
        kept == RLClean(w, window_start)
        current_count == SumOver(w, kept)
        newdom == kept \cup {now}
    IN <<current_count + 1,
         [ts \in newdom |->
             IF ts = now THEN (IF now \in kept THEN w[now] ELSE 0) + 1 ELSE w[ts]]>>

\* the RateLimitResponse of _check_sliding_window for a count
SlidingWindowResponse(count, limit) ==
    IF RLDenied(count, limit)
    THEN [result |-> "denied", remaining |-> 0, current_count |-> count]
    ELSE [result |-> "allowed", remaining |-> Max(0, limit - count),
          current_count |-> count]

\* the tier check selects: tier or the default, the default for an unknown name
SelectTier(tier) ==
    LET given == IF tier = "none" THEN Tiers[1] ELSE tier
    IN IF given \notin TierNames THEN Tiers[1] ELSE given

\* MultiTierRateLimiter.check(key, tier)
TierCheck(key, tier_arg) ==
    /\ mt.calls < MaxTierChecks
    /\ LET tier == SelectTier(tier_arg)
           slot == FullKey(mt, tier, key)
           r == WindowGetAndIncrement(mt.windows[slot], mt.window)
           alone == WindowGetAndIncrement(mt.solo[tier][key], mt.window)
       IN mt' = [mt EXCEPT
                    !.windows[slot] = r[2],
                    !.solo[tier][key] = alone[2],
                    !.calls = @ + 1,
                    !.last = [tier |-> tier, key |-> key,
                              resp |-> SlidingWindowResponse(r[1], TierLimit[tier]),
                              alone |-> SlidingWindowResponse(alone[1], TierLimit[tier])]]
    /\ UNCHANGED <<now, OthersTier>>

\* time passes between two calls
TierTick ==
    /\ now < MaxTime
    /\ now' = now + 1
    /\ slo' = [slo EXCEPT !.cleaned = FALSE]
    /\ UNCHANGED <<OthersSLO>>

TierNext ==
    \/ \E key \in TierKeys, tier_arg \in TierArgs : TierCheck(key, tier_arg)
    \/ TierTick

\* C25: for any construction of the tier limiters (also tiers on the same
\* backend with the default key prefix), the count, the remaining quota and
\* the allow/deny decision a check(K, tier=B) obtains are those it would
\* obtain had no check been made on another tier.
C25_TierIsolation ==
    mt.last # NoCheck => mt.last.resp = mt.last.alone

(***************************************************************************)
(* Circuit breaker.  CBNew builds a breaker without observers, so that     *)
(* every call runs its critical section whole; CBObserved installs them.   *)
(* An observer either records its arguments and returns, or calls back     *)
(* into the breaker (reads state or metrics, calls can_execute): it is     *)
(* invoked with the breaker's threading.Lock held, which is not re-entrant,*)
(* so a call back never gets the lock and the call in progress hangs.      *)
(* Of CircuitMetrics the model keeps state_changes and rejected_calls; the *)
(* other fields (call totals, timestamps, time_in_open, current_state) are *)
(* written and never read by the breaker.                                  *)
(***************************************************************************)
MaxThreshold == 3       \* failure_threshold is drawn from 2..MaxThreshold
MaxSuccess == 2         \* success_threshold
MaxTimeout == 2         \* timeout_seconds
MaxWindowSize == 3      \* window_size is drawn from 2..MaxWindowSize
MaxCbOps == MaxThreshold + MaxSuccess + 1   \* calls made on one breaker

\* failure_rate_threshold or 0.5, as the fraction FailureRateNum / FailureRateDen
FailureRateNum == 1
FailureRateDen == 2

None == -1

\* the object CircuitBreaker.__init__ builds
CBNew(ft, st, to, ws) ==
    [failure_threshold |-> ft, success_threshold |-> st, timeout_seconds |-> to,
     window_size |-> ws,
     state |-> "closed", failure_count |-> 0, success_count |-> 0,
     open_time |-> None, results |-> <<>>,
     rejected_calls |-> 0, state_changes |-> 0,
     on_state_change |-> "none", on_failure |-> "none",
     observed |-> <<>>, hung |-> FALSE]

\* the observers a breaker can be built with
ObserverKinds == {"none", "records", "calls_back"}
\* CircuitBreaker(..., on_state_change=..., on_failure=...)
CBObserved(ft, ws, on_state_change, on_failure) ==
    [CBNew(ft, 1, 1, ws) EXCEPT !.on_state_change = on_state_change,
                                !.on_failure = on_failure]

CBHistNew ==
    [ops |-> 0, op |-> "init", ret |-> FALSE, at |-> StartTime, prev_state |-> "closed",
     prev_open_time |-> None,
     run |-> 0, run_closed |-> FALSE, rate_trip |-> FALSE,
     half_open_successes |-> 0, trans |-> <<>>, scen |-> 0,
     recovered |-> FALSE, since |-> <<>>]

\* a breaker nobody calls: the state the other specifications leave it in
CBQuiet ==
    /\ cb = CBNew(1, 1, 1, 1)
    /\ cbh = CBHistNew

\* truthiness of an Optional[float]
Truthy(x) == x # None /\ x # 0

\* deque(maxlen=window_size).append(x)
DequeAppend(q, x, maxlen) ==
    IF maxlen = 0 THEN <<>>
    ELSE IF Len(q) >= maxlen THEN Append(Tail(q), x) ELSE Append(q, x)

\* the call of an observer made with the lock held
CallObserver(c, kind, args) ==
    CASE kind = "none" -> c
      [] kind = "records" -> [c EXCEPT !.observed = Append(@, args)]
      [] OTHER -> [c EXCEPT !.observed = Append(@, args), !.hung = TRUE]

\* _transition_to(new_state)
TransitionTo(c, new_state) ==
    IF c.state = new_state THEN c
    ELSE LET c1 == [c EXCEPT !.state = new_state, !.state_changes = @ + 1]
             c2 == CASE new_state = "open" -> [c1 EXCEPT !.open_time = now]
                     [] new_state = "closed" ->
                          [c1 EXCEPT !.failure_count = 0, !.success_count = 0,
                                     !.open_time = None]
                     [] OTHER -> [c1 EXCEPT !.success_count = 0]
         IN CallObserver(c2, c.on_state_change, <<c.state, new_state>>)

\* the timeout test of _check_state_transition
TimeoutElapsedMut(c) == Truthy(c.open_time) /\ now - c.open_time > c.timeout_seconds
TimeoutElapsed(c) == Truthy(c.open_time) /\ now - c.open_time >= c.timeout_seconds

\* _check_state_transition()
CheckStateTransition(c) ==
    IF c.state = "open" /\ TimeoutElapsed(c) THEN TransitionTo(c, "half_open") ELSE c

\* the closing test of record_success
SuccessesReachedMut(c) == c.success_count > c.success_threshold
SuccessesReached(c) == c.success_count >= c.success_threshold

\* the state test of record_success: successes count toward closing in HALF_OPEN
InHalfOpenMut(c) == c.state # "closed"
InHalfOpen(c) == c.state = "half_open"

\* the body of record_success under the lock
RecordSuccessBody(c) ==
    LET c1 == [c EXCEPT !.results = DequeAppend(@, TRUE, c.window_size)]
    IN CASE InHalfOpen(c1) ->
              LET c2 == [c1 EXCEPT !.success_count = @ + 1]
              IN IF SuccessesReached(c2) THEN TransitionTo(c2, "closed") ELSE c2
         [] c1.state = "closed" -> [c1 EXCEPT !.failure_count = 0]
         [] OTHER -> c1

\* sum(1 for r in self._results if not r)
Failures(q) == Cardinality({i \in 1..Len(q) : ~q[i]})

\* the failure-count test of record_failure
FailuresReachedMut(c) == c.failure_count > c.failure_threshold
FailuresReached(c) == c.failure_count >= c.failure_threshold

\* the failure-rate test of record_failure: the window is full and
\* failures / len(results) >= failure_rate_threshold
RateReached(c) ==
    /\ Len(c.results) >= c.window_size
    /\ Len(c.results) > 0
    /\ Failures(c.results) * FailureRateDen >= FailureRateNum * Len(c.results)

\* the body of record_failure under the lock, after on_failure returned
RecordFailureBody(c) ==
    LET c1 == [c EXCEPT !.results = DequeAppend(@, FALSE, c.window_size)]
    IN CASE c1.state = "half_open" -> TransitionTo(c1, "open")
         [] c1.state = "closed" ->
              LET c2 == [c1 EXCEPT !.failure_count = @ + 1]
              IN IF FailuresReached(c2) THEN TransitionTo(c2, "open")
                 ELSE IF RateReached(c2) THEN TransitionTo(c2, "open")
                 ELSE c2
         [] OTHER -> c1

\* the history after a call that took the breaker from c to d
CBLog(c, d, op, ret) ==
    [cbh EXCEPT !.ops = @ + 1, !.op = op, !.ret = ret, !.at = now,
                !.prev_state = c.state, !.prev_open_time = c.open_time,
                !.trans = IF d.state # c.state
                          THEN Append(@, <<c.state, d.state>>) ELSE @,
                !.half_open_successes =
                     IF d.state = "half_open" /\ c.state # "half_open" THEN 0
                     ELSE IF op = "record_success" THEN @ + 1 ELSE @,
                !.recovered =
                     IF op = "reset" THEN FALSE
                     ELSE IF c.state = "half_open" /\ d.state = "closed" THEN TRUE
                     ELSE IF c.state = "closed" THEN @ ELSE FALSE,
                !.since =
                     IF op = "reset" \/ c.state # "closed" \/ ~cbh.recovered THEN <<>>
                     ELSE IF op = "record_success" THEN Append(@, TRUE)
                     ELSE IF op = "record_failure" THEN Append(@, FALSE) ELSE @]

\* recovered: the breaker went HALF_OPEN -> CLOSED and has not left CLOSED
\* before the last call; since: the outcomes recorded since that recovery,
\* the last call's included

\* the position reached in the run `failure_threshold failures, wait
\* timeout_seconds, can_execute, success_threshold successes` on a new breaker;
\* -1 once the calls made are not a prefix of that run
ScenNext(c, op) ==
    LET p == cbh.scen
        ft == c.failure_threshold
        st == c.success_threshold
    IN IF p < 0 THEN -1
       ELSE IF p < ft THEN (IF op = "record_failure" THEN p + 1 ELSE -1)
       ELSE IF p = ft
            THEN (IF op = "can_execute" /\ Truthy(c.open_time)
                       /\ now - c.open_time >= c.timeout_seconds
                  THEN p + 1 ELSE -1)
       ELSE IF p < ft + 1 + st THEN (IF op = "record_success" THEN p + 1 ELSE -1)
       ELSE -1

\* can_execute()
CanExecute ==
    /\ cbh.ops < MaxCbOps
    /\ ~cb.hung
    /\ LET c1 == CheckStateTransition(cb)
           ret == c1.state # "open" /\ ~c1.hung
           c2 == IF ret \/ c1.hung THEN c1 ELSE [c1 EXCEPT !.rejected_calls = @ + 1]
       IN /\ cb' = c2
          /\ cbh' = [CBLog(cb, c2, "can_execute", ret) EXCEPT
                        !.scen = ScenNext(cb, "can_execute")]
    /\ UNCHANGED <<now, OthersCB>>

\* record_success()
RecordSuccess ==
    /\ cbh.ops < MaxCbOps
    /\ ~cb.hung
    /\ LET c2 == RecordSuccessBody(cb)
       IN /\ cb' = c2
          /\ cbh' = [CBLog(cb, c2, "record_success", FALSE) EXCEPT
                        !.scen = ScenNext(cb, "record_success"),
                        !.run = 0, !.run_closed = FALSE, !.rate_trip = FALSE]
    /\ UNCHANGED <<now, OthersCB>>

\* record_failure(exception) with an exception that is not excluded, or none:
\* on_failure is called when there is an exception, after the outcome is
\* appended to the results and before the state is looked at
RecordFailure(exception) ==
    /\ cbh.ops < MaxCbOps
    /\ ~cb.hung
    /\ LET c1 == IF exception THEN CallObserver(cb, cb.on_failure, <<"failure">>)
                 ELSE cb
           c2 == IF c1.hung
                 THEN [c1 EXCEPT !.results = DequeAppend(@, FALSE, cb.window_size)]
                 ELSE RecordFailureBody(c1)
       IN /\ cb' = c2
          /\ cbh' = [CBLog(cb, c2, "record_failure", FALSE) EXCEPT
                        !.scen = ScenNext(cb, "record_failure"),
                        !.run = @ + 1,
                        !.run_closed = IF cbh.run = 0 THEN cb.state = "closed" ELSE @,
                        !.rate_trip =
                            \/ (IF cbh.run = 0 THEN FALSE ELSE @)
                            \/ /\ cb.state = "closed"
                               /\ c2.state = "open"
                               /\ c2.failure_count < c2.failure_threshold]
    /\ UNCHANGED <<now, OthersCB>>

\* record_failure(exception) with an exception in excluded_exceptions: returns
\* before the lock is taken
RecordFailureExcluded ==
    /\ cbh.ops < MaxCbOps
    /\ ~cb.hung
    /\ cbh' = [cbh EXCEPT !.ops = @ + 1, !.op = "record_failure_excluded",
                          !.ret = FALSE, !.at = now, !.prev_state = cb.state,
                          !.prev_open_time = cb.open_time, !.scen = -1]
    /\ UNCHANGED <<now, cb, OthersCB>>

\* the `state` property
ReadState ==
    /\ cbh.ops < MaxCbOps
    /\ ~cb.hung
    /\ LET c2 == CheckStateTransition(cb)
       IN /\ cb' = c2
          /\ cbh' = [CBLog(cb, c2, "state", FALSE) EXCEPT !.scen = -1]
    /\ UNCHANGED <<now, OthersCB>>

\* reset()
Reset ==
    /\ cbh.ops < MaxCbOps
    /\ ~cb.hung
    /\ LET c2 == [cb EXCEPT !.state = "closed", !.failure_count = 0,
                            !.success_count = 0, !.open_time = None,
                            !.results = <<>>]
       IN /\ cb' = c2
          /\ cbh' = [CBLog(cb, c2, "reset", FALSE) EXCEPT
                        !.scen = -1, !.run = 0, !.run_closed = FALSE,
                        !.rate_trip = FALSE]
    /\ UNCHANGED <<now, OthersCB>>

CBTick ==
    /\ now < MaxTime
    /\ now' = now + 1
    /\ slo' = [slo EXCEPT !.cleaned = FALSE]
    /\ UNCHANGED <<OthersSLO>>

CBNext ==
    \/ CanExecute
    \/ RecordSuccess
    \/ RecordFailure(TRUE)
    \/ RecordFailureExcluded
    \/ ReadState
    \/ Reset
    \/ CBTick

\* C2 as stated: of failure_threshold consecutive record_failure calls that
\* start in CLOSED, the failure_threshold-th is the one that trips the breaker
\* (CLOSED before it, OPEN after it), and a can_execute made on the OPEN
\* breaker before timeout_seconds have elapsed returns false.
C2_ThresholdthFailureTrips ==
    /\ (cbh.op = "record_failure" /\ cbh.run = cb.failure_threshold /\ cbh.run_closed)
          => (cbh.prev_state = "closed" /\ cb.state = "open")
    /\ (cbh.op = "can_execute" /\ cbh.prev_state = "open"
          /\ cbh.at - cbh.prev_open_time < cb.timeout_seconds) => ~cbh.ret

\* C2 amended: after failure_threshold consecutive record_failure calls that
\* start in CLOSED the breaker is OPEN; the failure_threshold-th failure is the
\* one that trips it unless the failure-rate rule (window full and failure rate
\* >= failure_rate_threshold) opened it on an earlier failure of the run; and a
\* can_execute made on the OPEN breaker before timeout_seconds have elapsed
\* returns false.
C2_TripByThresholdOrRate ==
    /\ (cbh.op = "record_failure" /\ cbh.run = cb.failure_threshold /\ cbh.run_closed)
          => /\ cb.state = "open"
             /\ cbh.prev_state = "closed" \/ cbh.rate_trip
    /\ (cbh.op = "can_execute" /\ cbh.prev_state = "open"
          /\ cbh.at - cbh.prev_open_time < cb.timeout_seconds) => ~cbh.ret

\* C2 witness: the count rule tripped the breaker on the failure_threshold-th
\* failure of a run, and the can_execute that followed was refused
C2_Witness ==
    /\ cbh.op = "can_execute" /\ ~cbh.ret
    /\ cbh.run = cb.failure_threshold /\ cbh.run_closed /\ ~cbh.rate_trip
    /\ cb.state = "open"

\* C3: a can_execute on an OPEN breaker returns false (and leaves it OPEN) when
\* made less than timeout_seconds after the breaker entered OPEN, and returns
\* true and leaves the breaker HALF_OPEN when made at or after timeout_seconds.
C3_OpenTimeout ==
    (cbh.op = "can_execute" /\ cbh.prev_state = "open") =>
        IF cbh.at - cbh.prev_open_time < cb.timeout_seconds
        THEN ~cbh.ret /\ cb.state = "open"
        ELSE cbh.ret /\ cb.state = "half_open"

\* C3 witness: a can_execute made exactly timeout_seconds after the breaker opened
C3_Witness ==
    /\ cbh.op = "can_execute" /\ cbh.prev_state = "open"
    /\ cbh.at - cbh.prev_open_time = cb.timeout_seconds
    /\ cbh.ret

CBRecoveryChain ==
    << <<"closed", "open">>, <<"open", "half_open">>, <<"half_open", "closed">> >>

\* C4: in HALF_OPEN a record_success that leaves the number of successes below
\* success_threshold keeps the breaker HALF_OPEN and the success_threshold-th
\* moves it to CLOSED; and after the run `failure_threshold failures, wait
\* timeout_seconds, can_execute, success_threshold successes` on a new breaker
\* the state changes made are exactly closed->open, open->half-open,
\* half-open->closed and metrics.state_changes = 3.
C4_Recovery ==
    /\ (cbh.op = "record_success" /\ cbh.prev_state = "half_open") =>
          IF cbh.half_open_successes < cb.success_threshold
          THEN cb.state = "half_open"
          ELSE cb.state = "closed"
    /\ (cbh.scen = cb.failure_threshold + 1 + cb.success_threshold) =>
          /\ cb.state = "closed"
          /\ cb.state_changes = 3
          /\ cbh.trans = CBRecoveryChain

\* C4 witness: the recovery run has been made to its end, and its last success
\* is the one that closed the breaker
C4_Witness ==
    /\ cbh.scen = cb.failure_threshold + 1 + cb.success_threshold
    /\ cbh.op = "record_success" /\ cbh.prev_state = "half_open"
    /\ cb.state = "closed"

\* the edges of the breaker's state graph
BreakerEdges ==
    {<<"closed", "open">>, <<"open", "half_open">>, <<"half_open", "closed">>,
     <<"half_open", "open">>}

\* C40: the state changes only along closed->open, open->half-open,
\* half-open->closed and half-open->open, plus reset() to closed; a
\* record_success or record_failure that arrives while the breaker is OPEN
\* does not change its state; the breaker never goes closed->half-open, nor
\* open->closed without reset().
C40_TransitionGraph ==
    /\ cbh.prev_state # cb.state =>
          \/ <<cbh.prev_state, cb.state>> \in BreakerEdges
          \/ cbh.op = "reset" /\ cb.state = "closed"
    /\ (cbh.op \in {"record_success", "record_failure"} /\ cbh.prev_state = "open")
          => cb.state = "open"
    /\ \A i \in 1..Len(cbh.trans) : cbh.trans[i] # <<"closed", "half_open">>

\* a record_success arrived while the breaker was OPEN, after timeout_seconds
\* had elapsed, and left it OPEN
C40_Witness ==
    /\ cbh.op = "record_success"
    /\ cbh.prev_state = "open"
    /\ cb.state = "open"
    /\ now - cb.open_time >= cb.timeout_seconds

\* the failures at the end of a sequence of outcomes
TrailingFailures(q) ==
    LET oks == {i \in 1..Len(q) : q[i]}
    IN Len(q) - (IF oks = {} THEN 0 ELSE CHOOSE i \in oks : \A k \in oks : k <= i)

\* C35: a breaker that recovered (HALF_OPEN -> CLOSED) opens again only on
\* failure_threshold consecutive failures recorded since the recovery, or
\* when window_size outcomes recorded since the recovery have a failure rate
\* of at least failure_rate_threshold; outcomes from before do not count.
C35_CleanSlate ==
    (cbh.recovered /\ cbh.prev_state = "closed" /\ cb.state = "open") =>
        \/ TrailingFailures(cbh.since) >= cb.failure_threshold
        \/ /\ Len(cbh.since) >= cb.window_size
           /\ Failures(SubSeq(cbh.since, Len(cbh.since) - cb.window_size + 1,
                              Len(cbh.since))) * FailureRateDen
                 >= FailureRateNum * cb.window_size

\* the (old, new) pairs the on_state_change observer was called with
ObservedChanges == SelectSeq(cb.observed, LAMBDA args : Len(args) = 2)

\* C38: every change of the breaker's state, reset() on a breaker that is
\* not CLOSED included, calls on_state_change once with (old, new) and adds
\* one to metrics.state_changes.
C38_ObserverPerChange ==
    cb.on_state_change = "records" =>
        /\ ObservedChanges = cbh.trans
        /\ cb.state_changes = Len(cbh.trans)

\* C39: an observer that calls back into its breaker returns, and the call
\* that triggered it completes.
C39_ObserverReturns == ~cb.hung

(***************************************************************************)
(* Retry executor.  Durations are in hundredths of a second; the executor  *)
(* reads the clock only as time.time() - start_time, kept as rt.elapsed.   *)
(* The wrapped function is the environment: each call takes some time and  *)
(* returns a value, returns a value the retry_on_result predicate accepts, *)
(* raises a retryable exception or raises a non-retryable one.             *)
(***************************************************************************)
MaxAttempts == 3        \* max_attempts is drawn from 1..MaxAttempts

\* RetryConfig's delays: base_delay 1.0 s, multiplier 2.0, jitter_range (0.8, 1.2)
RetryDefaults ==
    [base_delay |-> 100, backoff_multiplier |-> 2, jitter_lo |-> 80, jitter_hi |-> 120]

Strategies == {"constant", "linear", "exponential", "fibonacci"}
MaxDelays == {150, 6000}            \* max_delay
TotalTimeouts == {0, 200}           \* total_timeout; 0 stands for None
FuncTimes == {0, 100}               \* how long a call of the function takes
FuncOutcomes == {"value", "retry_value", "retryable", "fatal"}

RECURSIVE Pow(_, _)
Pow(b, e) == IF e <= 0 THEN 1 ELSE b * Pow(b, e - 1)

RECURSIVE Fib(_)
\* _fib_cache[n], the cache starting [0, 1]
Fib(n) == IF n <= 0 THEN 0 ELSE IF n = 1 THEN 1 ELSE Fib(n - 1) + Fib(n - 2)

\* the jitter multipliers random.uniform may draw, in percent
JitterDraws(r) ==
    IF r.jitter THEN {RetryDefaults.jitter_lo, RetryDefaults.jitter_hi} ELSE {100}

\* the cap of _calculate_delay: delay = min(delay, max_delay)
CapDelayMut(delay, max_delay) == delay
CapDelay(delay, max_delay) == Min(delay, max_delay)

\* _calculate_delay(attempt) with the jitter draw j (percent)
CalculateDelay(r, attempt, j) ==
    LET base == RetryDefaults.base_delay
        raw == CASE r.strategy = "constant" -> base
                 [] r.strategy = "linear" -> base * attempt
                 [] r.strategy = "exponential" ->
                      base * Pow(RetryDefaults.backoff_multiplier, attempt - 1)
                 [] OTHER -> base * Fib(attempt)
    IN (CapDelay(raw, r.max_delay) * j) \div 100

NoResult == [outcome |-> "none"]

\* RetryHandler(max_attempts, ...) with no execute running
RTNew(ma, strategy, jitter, md, tt, pred) ==
    [max_attempts |-> ma, strategy |-> strategy, jitter |-> jitter, max_delay |-> md,
     total_timeout |-> tt, retry_on_result |-> pred,
     pc |-> "idle", attempt |-> 0, delays |-> <<>>, elapsed |-> 0,
     last_exception |-> "none", calls |-> 0, raised_by |-> 0,
     all_retryable |-> TRUE,
     on_retry |-> 0, on_success |-> 0, on_failure |-> 0,
     result |-> NoResult]

RTQuiet == rt = RTNew(1, "constant", FALSE, 150, 0, FALSE)

\* execute(func): the statements before the loop
RetryExecute ==
    /\ rt.pc \in {"idle", "done"}
    /\ rt' = [rt EXCEPT !.pc = "loop", !.attempt = 1, !.delays = <<>>, !.elapsed = 0,
                        !.last_exception = "none", !.calls = 0, !.raised_by = 0,
                        !.all_retryable = TRUE, !.on_retry = 0,
                        !.on_success = 0, !.on_failure = 0, !.result = NoResult]
    /\ UNCHANGED <<now, OthersRT>>

\* for attempt in range(1, max_attempts + 1): the loop goes on
InRangeMut(attempt, max_attempts) == attempt <= max_attempts + 1
InRange(attempt, max_attempts) == attempt <= max_attempts

\* the total-timeout test at the head of the loop body
TimedOut(r) == r.total_timeout # 0 /\ r.elapsed >= r.total_timeout

\* the attempts a TIMEOUT result reports
TimeoutAttemptsMut(attempt) == attempt
TimeoutAttempts(attempt) == attempt - 1

\* one pass of the loop body that ends in `return RetryResult(TIMEOUT, ...)`
RetryTimeout ==
    /\ rt.pc = "loop"
    /\ InRange(rt.attempt, rt.max_attempts)
    /\ TimedOut(rt)
    /\ rt' = [rt EXCEPT !.pc = "done",
                        !.result = [outcome |-> "timeout", value |-> "none",
                                    exception |-> rt.last_exception,
                                    attempts |-> TimeoutAttempts(rt.attempt),
                                    total_time |-> rt.elapsed, delays |-> rt.delays]]
    /\ UNCHANGED <<now, OthersRT>>

\* one pass of the loop body that calls the function: the call takes `took`
\* and ends as `out`; j is the jitter draw should a delay be calculated
RetryAttempt(out, took, j) ==
    /\ rt.pc = "loop"
    /\ InRange(rt.attempt, rt.max_attempts)
    /\ ~TimedOut(rt)
    /\ out = "retry_value" => rt.retry_on_result
    /\ LET r1 == [rt EXCEPT !.calls = @ + 1, !.elapsed = @ + took,
                            !.all_retryable = @ /\ out = "retryable",
                            !.raised_by = IF out \in {"retryable", "fatal"}
                                          THEN rt.calls + 1 ELSE @]
           delay == CalculateDelay(rt, rt.attempt, j)
           more == rt.attempt < rt.max_attempts
       IN rt' =
          CASE out = "retry_value" /\ more ->
                 [r1 EXCEPT !.delays = Append(@, delay), !.elapsed = @ + delay,
                            !.attempt = @ + 1]
            [] out \in {"value", "retry_value"} ->
                 [r1 EXCEPT !.pc = "done", !.on_success = @ + 1,
                            !.result = [outcome |-> "success", value |-> out,
                                        exception |-> "none", attempts |-> rt.attempt,
                                        total_time |-> r1.elapsed,
                                        delays |-> rt.delays]]
            [] out = "fatal" ->
                 [r1 EXCEPT !.pc = "done", !.last_exception = out,
                            !.result = [outcome |-> "aborted", value |-> "none",
                                        exception |-> out, attempts |-> rt.attempt,
                                        total_time |-> r1.elapsed,
                                        delays |-> rt.delays]]
            [] OTHER ->
                 IF more
                 THEN [r1 EXCEPT !.last_exception = out, !.delays = Append(@, delay),
                                 !.on_retry = @ + 1, !.elapsed = @ + delay,
                                 !.attempt = @ + 1]
                 ELSE [r1 EXCEPT !.last_exception = out, !.attempt = @ + 1]
    /\ UNCHANGED <<now, OthersRT>>

\* the statements after the loop: `return RetryResult(EXHAUSTED, ...)`
RetryExhausted ==
    /\ rt.pc = "loop"
    /\ ~InRange(rt.attempt, rt.max_attempts)
    /\ rt' = [rt EXCEPT !.pc = "done", !.on_failure = @ + 1,
                        !.result = [outcome |-> "exhausted", value |-> "none",
                                    exception |-> rt.last_exception,
                                    attempts |-> rt.max_attempts,
                                    total_time |-> rt.elapsed, delays |-> rt.delays]]
    /\ UNCHANGED <<now, OthersRT>>

RTNext ==
    \/ RetryExecute
    \/ RetryTimeout
    \/ \E out \in FuncOutcomes, took \in FuncTimes, j \in JitterDraws(rt) :
          RetryAttempt(out, took, j)
    \/ RetryExhausted

\* C15: if the wrapped function raises a retryable exception on every call
\* and no total_timeout is set, execute invokes it exactly max_attempts times
\* and then returns EXHAUSTED with attempts = max_attempts and the last
\* exception (the one the max_attempts-th call raised); under no outcome is
\* the function invoked more than max_attempts times.
C15_RetryExhaustion ==
    /\ rt.calls <= rt.max_attempts
    /\ (rt.pc = "done" /\ rt.all_retryable /\ rt.total_timeout = 0) =>
          /\ rt.calls = rt.max_attempts
          /\ rt.result.outcome = "exhausted"
          /\ rt.result.attempts = rt.max_attempts
          /\ rt.result.exception = "retryable"
          /\ rt.raised_by = rt.max_attempts

\* execute returned after the function had raised a retryable exception on
\* each of three calls, with no total_timeout
C15_Witness ==
    /\ rt.pc = "done"
    /\ rt.all_retryable
    /\ rt.total_timeout = 0
    /\ rt.max_attempts = 3
    /\ rt.calls = 3
    /\ rt.result.outcome = "exhausted"

\* C5 as stated: every RetryResult returned by execute, whatever its outcome,
\* has len(delays) = attempts - 1.
C5_DelaysIsAttemptsMinusOne ==
    rt.pc = "done" => Len(rt.result.delays) = rt.result.attempts - 1

\* C5 amended: with max_attempts >= 1, a SUCCESS, ABORTED or EXHAUSTED result
\* has len(delays) = attempts - 1, and a TIMEOUT result has len(delays) =
\* attempts, the delay slept before the attempt that could not start being
\* recorded.
C5_DelaysPerOutcome ==
    rt.pc = "done" =>
        IF rt.result.outcome = "timeout"
        THEN Len(rt.result.delays) = rt.result.attempts
        ELSE Len(rt.result.delays) = rt.result.attempts - 1

\* C5 witness: execute returned TIMEOUT after two attempts and two delays
C5_Witness ==
    /\ rt.pc = "done" /\ rt.result.outcome = "timeout"
    /\ rt.result.attempts = 2 /\ Len(rt.result.delays) = 2

\* C32: execute calls on_retry once before each re-attempt, and ends with
\* exactly one final callback: on_success when the outcome is SUCCESS,
\* on_failure when it is EXHAUSTED, TIMEOUT or ABORTED.
C32_RetryObservers ==
    rt.pc = "done" =>
        /\ rt.calls - 1 <= rt.on_retry
        /\ rt.on_retry <= Len(rt.delays)
        /\ rt.on_success = (IF rt.result.outcome = "success" THEN 1 ELSE 0)
        /\ rt.on_failure = (IF rt.result.outcome = "success" THEN 0 ELSE 1)

\* C37: with a retry_on_result predicate configured, execute returns SUCCESS
\* only with a value the predicate rejects; when the predicate accepts the
\* result of every attempt the outcome is not SUCCESS and on_success is not
\* called.
C37_ResultBasedRetry ==
    (rt.pc = "done" /\ rt.retry_on_result) =>
        /\ rt.result.outcome = "success" => rt.result.value = "value"
        /\ rt.result.outcome # "success" => rt.on_success = 0

\* the delays an execute has recorded so far
RecordedDelays == {rt.delays[i] : i \in 1..Len(rt.delays)}

\* the bounds of the jitter multiplier, in percent: 1.0 with jitter disabled
JitterLo == IF rt.jitter THEN RetryDefaults.jitter_lo ELSE 100
JitterHi == IF rt.jitter THEN RetryDefaults.jitter_hi ELSE 100

MaxAppends == 3         \* add_message calls made on one manager

CharsPerToken == 4      \* ApproximateTokenCounter.chars_per_token
MessageOverhead == 4    \* count_messages: role, formatting tokens
SummaryPrefixLen == 31  \* len("Previous conversation summary:\n")
HighPriority == 5       \* _truncate_fifo: low priority threshold

TruncationStrategies == {"fifo", "lifo", "sliding_window", "priority", "summarize"}
TargetTokens == {10, 20}            \* target_tokens
MinMessages == {0, 2}           \* config.min_messages
WindowSizes == {1, 2}             \* sliding_window_size
ContentLens == {0, 40}              \* len(message.content)
SummaryLens == {0, 40}              \* len of the summarizer's return value
MessageKinds ==                     \* role and priority of an appended message
    { <<"user", 0>>, <<"assistant", 0>>, <<"assistant", HighPriority>> }
NoMessage == [id |-> 0, role |-> "none", priority |-> 0, chars |-> 0]

\* ApproximateTokenCounter.count(text)
Count(chars) == chars \div CharsPerToken

RECURSIVE CountMessages(_)
\* ApproximateTokenCounter.count_messages(messages); no message has a name
CountMessages(msgs) ==
    IF msgs = <<>> THEN 0
    ELSE MessageOverhead + Count(Head(msgs).chars) + CountMessages(Tail(msgs))

\* _get_all_messages(): the system message, the summary pseudo-message, the rest
GetAllMessages(c) ==
    (IF c.system_message # NoMessage THEN <<c.system_message>> ELSE <<>>)
    \o (IF c.summary > 0
        THEN <<[id |-> 0, role |-> "system", priority |-> HighPriority,
                chars |-> SummaryPrefixLen + c.summary]>>
        ELSE <<>>)
    \o c.messages

\* the current_tokens property
CurrentTokens(c) == CountMessages(GetAllMessages(c))

\* list.pop(i), 1-based
Pop(q, i) == SubSeq(q, 1, i - 1) \o SubSeq(q, i + 1, Len(q))

\* q[-n:] (Python: q[-0:] is the whole list)
LastN(q, n) == IF n = 0 \/ n >= Len(q) THEN q ELSE SubSeq(q, Len(q) - n + 1, Len(q))

\* the loop condition of _truncate_fifo, _truncate_lifo and _truncate_priority
OverBudget(c) ==
    CurrentTokens(c) > c.target_tokens /\ Len(c.messages) > c.min_messages

RECURSIVE TruncateFifo(_)
\* _truncate_fifo()
TruncateFifo(c) ==
    IF ~OverBudget(c) THEN c
    ELSE LET low == {i \in 1..Len(c.messages) : c.messages[i].priority < HighPriority}
             i == IF low # {} THEN SetMin(low) ELSE 1
         IN TruncateFifo([c EXCEPT !.messages = Pop(@, i)])

RECURSIVE TruncateLifo(_)
\* _truncate_lifo(); hung when a pass of the loop finds no message to pop
TruncateLifo(c) ==
    IF ~OverBudget(c) THEN c
    ELSE IF c.preserve_latest_user
    THEN LET n == Len(c.messages)
             users == {i \in 1..n : c.messages[i].role = "user"}
             latest_user_idx == IF users = {} THEN 0
                                ELSE CHOOSE i \in users : \A j \in users : j <= i
             cand == {i \in 1..n : i # latest_user_idx}
         IN IF cand = {} THEN [c EXCEPT !.hung = TRUE]
            ELSE TruncateLifo([c EXCEPT !.messages =
                                  Pop(@, CHOOSE i \in cand : \A j \in cand : j <= i)])
    ELSE TruncateLifo([c EXCEPT !.messages = SubSeq(@, 1, Len(@) - 1)])

\* _truncate_sliding_window()
TruncateSlidingWindow(c) ==
    IF Len(c.messages) > c.sliding_window_size
    THEN [c EXCEPT !.messages = LastN(@, c.sliding_window_size)]
    ELSE c

RECURSIVE TruncatePriority(_)
\* _truncate_priority(): the first message of the lowest priority goes
TruncatePriority(c) ==
    IF ~OverBudget(c) THEN c
    ELSE LET n == Len(c.messages)
             min_idx == CHOOSE i \in 1..n :
                           /\ \A j \in 1..n : c.messages[i].priority <= c.messages[j].priority
                           /\ \A j \in 1..(i - 1) :
                                 c.messages[j].priority > c.messages[i].priority
         IN TruncatePriority([c EXCEPT !.messages = Pop(@, min_idx)])

\* _truncate_summarize(); summary_len is what the summarizer returns when called
TruncateSummarize(c, summary_len) ==
    IF c.summarizer = "none" THEN TruncateSlidingWindow(c)
    ELSE IF Len(c.messages) > c.min_messages
    THEN LET c1 == [c EXCEPT !.messages = LastN(@, c.min_messages)]
         IN IF c.summarizer = "raises" THEN c1
            ELSE [c1 EXCEPT !.summary = summary_len]
    ELSE c

\* _truncate()
Truncate(c, summary_len) ==
    CASE c.truncation_strategy = "fifo" -> TruncateFifo(c)
      [] c.truncation_strategy = "lifo" -> TruncateLifo(c)
      [] c.truncation_strategy = "sliding_window" -> TruncateSlidingWindow(c)
      [] c.truncation_strategy = "priority" -> TruncatePriority(c)
      [] OTHER -> TruncateSummarize(c, summary_len)

\* ContextWindowManager(...) and its config
CtxNew(strategy, target, min_messages, window, plu, summarizer) ==
    [truncation_strategy |-> strategy, target_tokens |-> target,
     min_messages |-> min_messages, sliding_window_size |-> window,
     preserve_latest_user |-> plu, summarizer |-> summarizer,
     messages |-> <<>>, system_message |-> NoMessage, summary |-> 0,
     appended |-> 0, op |-> "init", ret |-> TRUE, hung |-> FALSE,
     pushed |-> FALSE, cleared_at |-> 0, pre_len |-> 0]

CtxQuiet == ctx = CtxNew("sliding_window", 20, 1, 2, TRUE, "none")

\* the configurations, each strategy with the settings it reads
CtxConfigs ==
    {CtxNew(st, t, m, 2, TRUE, "none") :
        st \in {"fifo", "priority"}, t \in TargetTokens, m \in MinMessages}
    \cup {CtxNew("lifo", t, m, 2, plu, "none") :
        t \in TargetTokens, m \in MinMessages, plu \in BOOLEAN}
    \cup {CtxNew("sliding_window", t, m, w, TRUE, "none") :
        t \in TargetTokens, m \in MinMessages, w \in WindowSizes}
    \cup {CtxNew("summarize", t, m, w, TRUE, sm) :
        t \in TargetTokens, m \in MinMessages, w \in WindowSizes,
        sm \in {"none", "returns", "raises"}}

\* add_message(message)
AddMessage(kind, chars, summary_len) ==
    /\ ~ctx.hung
    /\ ctx.appended < MaxAppends
    /\ LET msg == [id |-> ctx.appended + 1, role |-> kind[1], priority |-> kind[2],
                   chars |-> chars]
           c1 == [ctx EXCEPT !.messages = Append(@, msg), !.appended = @ + 1,
                             !.op = "add_message"]
       IN ctx' = IF CurrentTokens(c1) > c1.target_tokens
                 THEN [Truncate(c1, summary_len) EXCEPT !.ret = FALSE, !.pushed = TRUE,
                                                        !.pre_len = Len(c1.messages)]
                 ELSE [c1 EXCEPT !.ret = TRUE]
    /\ UNCHANGED <<now, OthersCtx>>

\* set_system_message(content)
SetSystemMessage(chars) ==
    /\ ~ctx.hung
    /\ ctx.system_message = NoMessage \/ ctx.system_message.chars # chars
    /\ ctx' = [ctx EXCEPT !.system_message =
                              [id |-> 0, role |-> "system", priority |-> 10,
                               chars |-> chars],
                          !.op = "set_system_message"]
    /\ UNCHANGED <<now, OthersCtx>>

\* clear(keep_system)
Clear(keep_system) ==
    /\ ~ctx.hung
    /\ \/ ctx.messages # <<>>
       \/ ctx.summary > 0
       \/ ~keep_system /\ ctx.system_message # NoMessage
    /\ ctx' = [ctx EXCEPT !.messages = <<>>, !.summary = 0,
                          !.system_message = IF keep_system THEN @ ELSE NoMessage,
                          !.pushed = FALSE, !.cleared_at = ctx.appended,
                          !.op = "clear"]
    /\ UNCHANGED <<now, OthersCtx>>

CtxNext ==
    \/ \E kind \in MessageKinds, chars \in ContentLens, summary_len \in SummaryLens :
          AddMessage(kind, chars, summary_len)
    \/ \E chars \in ContentLens : SetSystemMessage(chars)
    \/ \E keep_system \in BOOLEAN : Clear(keep_system)

\* C6: after every add_message, under every truncation strategy, either
\* current_tokens <= target_tokens or the number of retained messages is
\* <= min_messages.
C6_ContextBudget ==
    (ctx.op = "add_message" /\ ~ctx.hung) =>
        \/ CurrentTokens(ctx) <= ctx.target_tokens
        \/ Len(ctx.messages) <= ctx.min_messages

\* the ids of the last n messages appended since the last clear, in order
LastAppended(n) ==
    LET first == Max(ctx.cleared_at + 1, ctx.appended - n + 1)
    IN [i \in 1..(ctx.appended - first + 1) |-> first + i - 1]

\* C33: under SUMMARIZE with the summarizer absent or raising, a truncation
\* pass leaves what SLIDING_WINDOW leaves: the last sliding_window_size of
\* the messages it found (pre_len of them), all of them when they are fewer.
C33_SummarizeFallback ==
    (/\ ctx.truncation_strategy = "summarize"
     /\ ctx.summarizer \in {"none", "raises"}
     /\ ctx.op = "add_message" /\ ~ctx.ret) =>
        LET kept == Min(ctx.pre_len, ctx.sliding_window_size)
        IN /\ Len(ctx.messages) = kept
           /\ \A i \in 1..kept : ctx.messages[i].id = ctx.appended - kept + i

\* C27: under SLIDING_WINDOW, after a series of appends that pushed the
\* conversation over target_tokens, the retained messages are exactly the
\* last sliding_window_size messages appended, in their original order, so
\* the retained count is <= sliding_window_size.
C27_SlidingWindowRetained ==
    (/\ ctx.truncation_strategy = "sliding_window"
     /\ ctx.op = "add_message"
     /\ ctx.pushed) =>
        /\ Len(ctx.messages) <= ctx.sliding_window_size
        /\ [i \in 1..Len(ctx.messages) |-> ctx.messages[i].id]
              = LastAppended(ctx.sliding_window_size)

\* C28: every add_message returns under FIFO, LIFO and PRIORITY (no pass of
\* a truncation loop leaves the list as it found it), for every message
\* sequence and configuration.
C28_TruncationTerminates ==
    ctx.truncation_strategy \in {"fifo", "lifo", "priority"} => ~ctx.hung

(***************************************************************************)
(* TTL cache: the in-memory backend.  _cache is an OrderedDict, modelled   *)
(* as the sequence of its entries [key, value, expires_at] in dict order   *)
(* (first = oldest).  The statistics are written and never read by the     *)
(* operations, and are left out.                                           *)
(***************************************************************************)
MaxSize == 2            \* max_size is drawn from 1..MaxSize
MaxTtl == 2             \* ttl_seconds is drawn from 1..MaxTtl
MaxCacheOps == 4        \* calls made on one backend

CacheKeys == {"a", "b"}
CacheValues == {"v1", "v2"}
Absent == "None"

\* InMemoryBackend(max_size)
CacheNew(max_size) == [max_size |-> max_size, entries |-> <<>>]

NeverWritten == [written |-> FALSE, value |-> Absent, t0 |-> 0, ttl |-> 0,
                 evicted |-> FALSE]

\* the history of a backend on which calls use the keys `keys`, at most
\* max_ops of them.  lru lists the stored keys by last use (a set or a
\* successful get), least recent first; gone holds the keys the last set
\* evicted, lru_head the least recently used key before the last call, lost
\* the other live keys the last set removed when its own key was already
\* stored and live.
ChOver(keys, max_ops) ==
    [ops |-> 0, max_ops |-> max_ops, op |-> "init", key |-> Absent, ret |-> Absent,
     at |-> 0, last |-> [k \in keys |-> NeverWritten],
     lru |-> <<>>, gone |-> {}, lru_head |-> Absent, lost |-> {}]

ChNew == ChOver(CacheKeys, MaxCacheOps)

CacheQuiet == cache = CacheNew(1) /\ ch = ChNew

\* key in self._cache, and its position
IndexOf(entries, key) ==
    LET S == {i \in 1..Len(entries) : entries[i].key = key}
    IN IF S = {} THEN 0 ELSE CHOOSE i \in S : TRUE

\* del self._cache[key]
Del(entries, key) ==
    LET i == IndexOf(entries, key)
    IN IF i = 0 THEN entries
       ELSE SubSeq(entries, 1, i - 1) \o SubSeq(entries, i + 1, Len(entries))

\* time.time() > entry.expires_at
IsExpiredMut(t, expires_at) == t >= expires_at
IsExpired(t, expires_at) == t > expires_at

RECURSIVE EvictToCapacity(_, _)
\* set: while len(self._cache) >= self.max_size, delete next(iter(self._cache))
EvictToCapacity(entries, max_size) ==
    IF Len(entries) >= max_size /\ entries # <<>>
    THEN EvictToCapacity(Tail(entries), max_size)
    ELSE entries

\* self._cache[key] = entry: an existing key keeps its place in the order
Store(entries, e) ==
    LET i == IndexOf(entries, e.key)
    IN IF i = 0 THEN Append(entries, e) ELSE [entries EXCEPT ![i] = e]

KeysOf(entries) == {entries[i].key : i \in 1..Len(entries)}

\* the history after a call that leaves the entries `entries`
CacheLog(op, key, ret, last) ==
    LET used == op = "set" \/ (op = "get" /\ ret # Absent)
        lru1 == IF used
                THEN Append(SelectSeq(ch.lru, LAMBDA k : k # key), key)
                ELSE ch.lru
    IN [ops |-> ch.ops + 1, max_ops |-> ch.max_ops, op |-> op, key |-> key,
        ret |-> ret, at |-> now, last |-> last,
        lru |-> SelectSeq(lru1, LAMBDA k : k \in KeysOf(cache'.entries)),
        gone |-> {},
        lru_head |-> IF ch.lru = <<>> THEN Absent ELSE Head(ch.lru),
        lost |-> {}]

\* get(key)
CacheGet(key) ==
    /\ ch.ops < ch.max_ops
    /\ LET i == IndexOf(cache.entries, key)
       IN IF i = 0
          THEN /\ UNCHANGED cache
               /\ ch' = CacheLog("get", key, Absent, ch.last)
          ELSE IF IsExpired(now, cache.entries[i].expires_at)
          THEN /\ cache' = [cache EXCEPT !.entries = Del(@, key)]
               /\ ch' = CacheLog("get", key, Absent, ch.last)
          ELSE /\ cache' = [cache EXCEPT !.entries =
                                Append(Del(@, key), cache.entries[i])]
               /\ ch' = CacheLog("get", key, cache.entries[i].value, ch.last)
    /\ UNCHANGED <<now, OthersCache>>

\* set(key, value, ttl_seconds)
CacheSet(key, value, ttl_seconds) ==
    /\ ch.ops < ch.max_ops
    /\ LET kept == EvictToCapacity(cache.entries, cache.max_size)
           gone == KeysOf(cache.entries) \ KeysOf(kept)
           e == [key |-> key, value |-> value, expires_at |-> now + ttl_seconds]
           live == {cache.entries[i].key : i \in
                       {j \in 1..Len(cache.entries) :
                           ~IsExpired(now, cache.entries[j].expires_at)}}
       IN /\ cache' = [cache EXCEPT !.entries = Store(kept, e)]
          /\ ch' = [CacheLog("set", key, "True",
                      [k \in DOMAIN ch.last |->
                          IF k = key
                          THEN [written |-> TRUE, value |-> value, t0 |-> now,
                                ttl |-> ttl_seconds, evicted |-> FALSE]
                          ELSE IF k \in gone
                          THEN [ch.last[k] EXCEPT !.evicted = TRUE]
                          ELSE ch.last[k]])
                     EXCEPT !.gone = gone,
                            !.lost = IF key \in live
                                     THEN (gone \cap live) \ {key} ELSE {}]
    /\ UNCHANGED <<now, OthersCache>>

\* delete(key)
CacheDelete(key) ==
    /\ ch.ops < ch.max_ops
    /\ cache' = [cache EXCEPT !.entries = Del(@, key)]
    /\ ch' = CacheLog("delete", key,
                      IF IndexOf(cache.entries, key) # 0 THEN "True" ELSE "False",
                      [ch.last EXCEPT ![key] = NeverWritten])
    /\ UNCHANGED <<now, OthersCache>>

\* exists(key)
CacheExists(key) ==
    /\ ch.ops < ch.max_ops
    /\ LET i == IndexOf(cache.entries, key)
       IN IF i = 0
          THEN /\ UNCHANGED cache
               /\ ch' = CacheLog("exists", key, "False", ch.last)
          ELSE IF IsExpired(now, cache.entries[i].expires_at)
          THEN /\ cache' = [cache EXCEPT !.entries = Del(@, key)]
               /\ ch' = CacheLog("exists", key, "False", ch.last)
          ELSE /\ UNCHANGED cache
               /\ ch' = CacheLog("exists", key, "True", ch.last)
    /\ UNCHANGED <<now, OthersCache>>

\* clear()
CacheClear ==
    /\ ch.ops < ch.max_ops
    /\ cache.entries # <<>>
    /\ cache' = [cache EXCEPT !.entries = <<>>]
    /\ ch' = CacheLog("clear", Absent, "count",
                      [k \in DOMAIN ch.last |-> NeverWritten])
    /\ UNCHANGED <<now, OthersCache>>

\* cleanup_expired()
CleanupExpired ==
    /\ ch.ops < ch.max_ops
    /\ \E i \in 1..Len(cache.entries) : IsExpired(now, cache.entries[i].expires_at)
    /\ cache' = [cache EXCEPT !.entries =
                    SelectSeq(@, LAMBDA e : ~IsExpired(now, e.expires_at))]
    /\ ch' = CacheLog("cleanup_expired", Absent, "count", ch.last)
    /\ UNCHANGED <<now, OthersCache>>

\* time.time() advances between calls
CacheTick ==
    /\ now < MaxTime
    /\ now' = now + 1
    /\ slo' = [slo EXCEPT !.cleaned = FALSE]
    /\ UNCHANGED <<OthersSLO>>

CacheNext ==
    \/ \E key \in CacheKeys : CacheGet(key)
    \/ \E key \in CacheKeys, value \in CacheValues, ttl_seconds \in 1..MaxTtl :
          CacheSet(key, value, ttl_seconds)
    \/ \E key \in CacheKeys : CacheDelete(key)
    \/ \E key \in CacheKeys : CacheExists(key)
    \/ CacheClear
    \/ CleanupExpired
    \/ CacheTick

\* C7 (as claimed): for every key k, after set(k, v, ttl) at time t0 with no
\* later set, delete or clear of k, a get(k) at time t returns v iff
\* t - t0 < ttl and returns absent otherwise.
C7_ReadAfterWrite ==
    (ch.op = "get" /\ ch.last[ch.key].written) =>
        LET w == ch.last[ch.key]
        IN IF ch.at - w.t0 < w.ttl THEN ch.ret = w.value ELSE ch.ret = Absent

\* C7 (amended): for every key k, after set(k, v, ttl) at time t0 with no
\* later set, delete or clear of k, and with k not evicted by a later set
\* made while the cache held max_size entries, a get(k) at time t returns v
\* iff t - t0 <= ttl and returns absent otherwise.
C7_ReadAfterWriteUnlessEvicted ==
    (ch.op = "get" /\ ch.last[ch.key].written /\ ~ch.last[ch.key].evicted) =>
        LET w == ch.last[ch.key]
        IN IF ch.at - w.t0 <= w.ttl THEN ch.ret = w.value ELSE ch.ret = Absent

\* a get made exactly ttl seconds after the write, which still returns v
C7_Witness ==
    /\ ch.op = "get"
    /\ ch.last[ch.key].written
    /\ ~ch.last[ch.key].evicted
    /\ ch.at - ch.last[ch.key].t0 = ch.last[ch.key].ttl
    /\ ch.ret = ch.last[ch.key].value

(***************************************************************************)
(* The same backend under get, set and delete alone, on three keys and     *)
(* with longer call sequences: the recency order.                          *)
(***************************************************************************)
MaxLruOps == 5          \* calls made on one backend

LruKeys == {"a", "b", "c"}

LruNext ==
    \/ \E key \in LruKeys : CacheGet(key)
    \/ \E key \in LruKeys : CacheSet(key, "v1", MaxTtl)
    \/ \E key \in LruKeys : CacheDelete(key)

\* C20: after any sequence of get/set/delete the number of stored entries
\* never exceeds max_size, and whenever a set evicts, the entry evicted is
\* the least recently used one, an entry's last use being its most recent
\* successful get or its most recent set.
C20_LruCapacity ==
    /\ Len(cache.entries) <= cache.max_size
    /\ (ch.op = "set" /\ ch.gone # {}) => ch.gone = {ch.lru_head}

\* C30: a set on a key that is already stored in the in-memory cache backend
\* removes no other live entry, even when the cache holds max_size entries.
C30_OverwriteNeverEvicts == ch.op = "set" => ch.lost = {}

(***************************************************************************)
(* Agent sessions.  One AgentSessionCache over the in-memory backend and   *)
(* one session in it.  The backend stores and returns references: the      *)
(* session a get returns is the object the cache holds, and add_message's  *)
(* updater changes it in place.  obj maps an object to the list under its  *)
(* "messages" key; cur is the object the cache entry holds.  max_size is   *)
(* the default 1000, so the one session is never evicted.  coro says that  *)
(* the cache entry holds a coroutine object instead of the session: what   *)
(* update stores when its updater is an `async def`.  context is the value *)
(* under the one context key used, None while it has none.                 *)
(***************************************************************************)
MaxMessages == 2        \* max_messages is drawn from 0..MaxMessages
MaxSesOps == 4          \* calls made on one session, one caller

Threads == {"t1", "t2"}
ObjIds == 0..Cardinality(Threads)
IdleThread == [pc |-> "idle", kind |-> "none", msg |-> 0, ref |-> 0,
               tmp |-> <<>>, ret |-> "none"]

\* AgentSessionCache(ttl_seconds, max_messages) with no session created
SesNew(ttl_seconds, max_messages) ==
    [default_ttl |-> ttl_seconds, max_messages |-> max_messages,
     created |-> FALSE, stored |-> FALSE, expires_at |-> 0, cur |-> 0,
     obj |-> [o \in ObjIds |-> <<>>], next_obj |-> 1,
     appended |-> <<>>, ops |-> 0, op |-> "none", ret |-> <<>>, live |-> FALSE,
     coro |-> FALSE, context |-> None, expect_context |-> None,
     expect_messages |-> <<>>,
     th |-> [t \in Threads |-> IdleThread]]

SesQuiet == ses = SesNew(1, 1)

\* InMemoryBackend.get(session_id) is a hit
SesHit(s) == s.stored /\ ~IsExpired(now, s.expires_at)

\* what InMemoryBackend.get leaves: an expired entry is deleted
SesAfterGet(s) == IF s.stored /\ IsExpired(now, s.expires_at)
                  THEN [s EXCEPT !.stored = FALSE] ELSE s

\* InMemoryBackend.set(session_id, the object ref, default_ttl)
SesAfterSet(s, ref) ==
    [s EXCEPT !.stored = TRUE, !.cur = ref, !.expires_at = now + s.default_ttl]

\* add_message's updater on the list msgs
Updater(msgs, m, max_messages) ==
    LET a == Append(msgs, m)
    IN IF Len(a) > max_messages THEN LastN(a, max_messages) ELSE a

\* create_session(user_id)
CreateSession ==
    /\ ~ses.created
    /\ ses' = [SesAfterSet(ses, 0) EXCEPT !.created = TRUE, !.obj[0] = <<>>,
                                          !.op = "create_session"]
    /\ UNCHANGED <<now, OthersSes>>

\* add_message(session_id, m), run by one caller from call to return
SesAddMessage ==
    /\ ses.created
    /\ ses.ops < MaxSesOps
    /\ LET m == ses.ops + 1
           s1 == [SesAfterGet(ses) EXCEPT !.ops = @ + 1, !.op = "add_message"]
       IN IF SesHit(ses) /\ ses.coro
          THEN \* session["messages"] on a coroutine: TypeError
               ses' = [s1 EXCEPT !.ret = <<"raised">>, !.live = TRUE]
          ELSE IF SesHit(ses)
          THEN ses' = [SesAfterSet(s1, s1.cur) EXCEPT
                          !.obj[s1.cur] = Updater(@, m, s1.max_messages),
                          !.appended = Append(@, m),
                          !.expect_messages = Updater(s1.obj[s1.cur], m, s1.max_messages),
                          !.ret = <<TRUE>>, !.live = TRUE]
          ELSE ses' = [s1 EXCEPT !.ret = <<FALSE>>, !.live = FALSE]
    /\ UNCHANGED <<now, OthersSes>>

\* get_messages(session_id)
SesGetMessages ==
    /\ ses.created
    /\ ses.ops < MaxSesOps
    /\ LET s1 == [SesAfterGet(ses) EXCEPT !.ops = @ + 1, !.op = "get_messages"]
       IN IF SesHit(ses) /\ ses.coro
          THEN \* session.get on a coroutine: AttributeError
               ses' = [s1 EXCEPT !.ret = <<"raised">>, !.live = TRUE]
          ELSE IF SesHit(ses)
          THEN ses' = [s1 EXCEPT !.ret = s1.obj[s1.cur], !.live = TRUE]
          ELSE ses' = [s1 EXCEPT !.ret = <<>>, !.live = FALSE]
    /\ UNCHANGED <<now, OthersSes>>

\* time passes between two calls
SesTick ==
    /\ now < MaxTime
    /\ now' = now + 1
    /\ slo' = [slo EXCEPT !.cleaned = FALSE]
    /\ UNCHANGED <<OthersSLO>>

SesNext == CreateSession \/ SesAddMessage \/ SesGetMessages \/ SesTick

\* the n most recent elements of q, in order
MostRecent(q, n) == SubSeq(q, Len(q) - Min(n, Len(q)) + 1, Len(q))

\* C13: after any sequence of add_message calls on a live session,
\* get_messages returns the appended messages in append order restricted to
\* the most recent max_messages of them, so the list never holds more than
\* max_messages entries.
C13_SessionMessages ==
    (ses.op = "get_messages" /\ ses.live) =>
        /\ ses.ret = MostRecent(ses.appended, ses.max_messages)
        /\ Len(ses.ret) <= ses.max_messages

\* the same with max_messages of one or more: the slice then trims
C13_SessionMessagesPositive ==
    (ses.op = "get_messages" /\ ses.live /\ ses.max_messages >= 1) =>
        /\ ses.ret = MostRecent(ses.appended, ses.max_messages)
        /\ Len(ses.ret) <= ses.max_messages

(***************************************************************************)
(* Session context.  set_context and clear_messages hand update an         *)
(* `async def updater`; update calls it without awaiting, so what it gets  *)
(* back and stores is the coroutine object, and the updater's body never   *)
(* runs.                                                                   *)
(***************************************************************************)
ContextValues == {"v1", "v2"}

\* update(session_id, updater) for an `async def updater`, run by one caller:
\* the stored session is replaced by the coroutine updater(value) returns
UpdateWithAsyncUpdater(s) == [SesAfterSet(s, s.cur) EXCEPT !.coro = TRUE]

\* set_context(session_id, key, value)
SetContext(value) ==
    /\ ses.created
    /\ ses.ops < MaxSesOps
    /\ LET s1 == [SesAfterGet(ses) EXCEPT !.ops = @ + 1, !.op = "set_context"]
       IN IF SesHit(ses)
          THEN ses' = [UpdateWithAsyncUpdater(s1) EXCEPT
                          !.expect_context = value,
                          !.ret = <<TRUE>>, !.live = TRUE]
          ELSE ses' = [s1 EXCEPT !.ret = <<FALSE>>, !.live = FALSE]
    /\ UNCHANGED <<now, OthersSes>>

\* clear_messages(session_id)
ClearMessages ==
    /\ ses.created
    /\ ses.ops < MaxSesOps
    /\ LET s1 == [SesAfterGet(ses) EXCEPT !.ops = @ + 1, !.op = "clear_messages"]
       IN IF SesHit(ses)
          THEN ses' = [UpdateWithAsyncUpdater(s1) EXCEPT
                          !.expect_messages = <<>>,
                          !.ret = <<TRUE>>, !.live = TRUE]
          ELSE ses' = [s1 EXCEPT !.ret = <<FALSE>>, !.live = FALSE]
    /\ UNCHANGED <<now, OthersSes>>

\* get_context(session_id, key)
GetContext ==
    /\ ses.created
    /\ ses.ops < MaxSesOps
    /\ LET s1 == [SesAfterGet(ses) EXCEPT !.ops = @ + 1, !.op = "get_context"]
       IN IF SesHit(ses) /\ ses.coro
          THEN \* session.get on a coroutine: AttributeError
               ses' = [s1 EXCEPT !.ret = <<"raised">>, !.live = TRUE]
          ELSE IF SesHit(ses)
          THEN ses' = [s1 EXCEPT !.ret = <<s1.context>>, !.live = TRUE]
          ELSE ses' = [s1 EXCEPT !.ret = <<None>>, !.live = FALSE]
    /\ UNCHANGED <<now, OthersSes>>

\* get_session(session_id): the stored value, a session record or a coroutine
GetSession ==
    /\ ses.created
    /\ ses.ops < MaxSesOps
    /\ LET s1 == [SesAfterGet(ses) EXCEPT !.ops = @ + 1, !.op = "get_session"]
       IN IF SesHit(ses)
          THEN ses' = [s1 EXCEPT !.ret = <<IF ses.coro THEN "coroutine" ELSE "session">>,
                                 !.live = TRUE]
          ELSE ses' = [s1 EXCEPT !.ret = <<None>>, !.live = FALSE]
    /\ UNCHANGED <<now, OthersSes>>

SesCtxNext ==
    \/ CreateSession \/ SesAddMessage \/ SesGetMessages
    \/ \E value \in ContextValues : SetContext(value)
    \/ ClearMessages \/ GetContext \/ GetSession
    \/ SesTick

\* C29: after set_context(sid, k, v) returns true on a live session,
\* get_context(sid, k) returns v, get_session(sid) still returns the session
\* record and get_messages(sid) returns the same messages as before; after
\* clear_messages(sid) the session record still exists with its context
\* unchanged and get_messages(sid) returns the empty list.
C29_ContextRoundTrip ==
    ses.live =>
        /\ (ses.op = "get_context" /\ ses.expect_context # None)
              => ses.ret = <<ses.expect_context>>
        /\ ses.op = "get_session" => ses.ret = <<"session">>
        /\ ses.op = "get_messages" => ses.ret = ses.expect_messages

(***************************************************************************)
(* Concurrent updates of one session.  Each thread runs one                *)
(* SessionCache.update(session_id, updater): a get, the updater, a set.    *)
(* The backend's get and set each run whole under its _lock; between them  *)
(* and between the statements of the updater a thread can be preempted.    *)
(* Two updaters: add_message's, which changes the session it is given in   *)
(* place, and one that returns a new session built from the one it is      *)
(* given ("copy").  Thread t1 adds message 1 and t2 message 2; the         *)
(* messages the session held before are 11, 12, ...                        *)
(***************************************************************************)
UpdaterKinds == {"add_message", "copy"}

ThreadMsg(t) == IF t = "t1" THEN 1 ELSE 2

\* a session created earlier that holds k messages
SesPreloaded(ttl_seconds, max_messages, k) ==
    [SesNew(ttl_seconds, max_messages) EXCEPT
        !.created = TRUE, !.stored = TRUE, !.expires_at = StartTime + ttl_seconds,
        !.obj[0] = [i \in 1..k |-> 10 + i], !.op = "create_session"]

\* value = await self.get(key); if value is None: return None
UpdGet(t, kind) ==
    /\ ses.th[t].pc = "idle"
    /\ LET s1 == SesAfterGet(ses)
       IN IF SesHit(ses)
          THEN ses' = [s1 EXCEPT !.th[t] = [IdleThread EXCEPT
                          !.pc = "got", !.kind = kind, !.msg = ThreadMsg(t),
                          !.ref = s1.cur]]
          ELSE ses' = [s1 EXCEPT !.th[t] = [IdleThread EXCEPT
                          !.pc = "done", !.kind = kind, !.msg = ThreadMsg(t),
                          !.ret = "None"]]
    /\ UNCHANGED <<now, OthersSes>>

\* session["messages"].append(message)
UpdAppend(t) ==
    /\ ses.th[t].pc = "got"
    /\ ses.th[t].kind = "add_message"
    /\ ses' = [ses EXCEPT !.obj[ses.th[t].ref] = Append(@, ses.th[t].msg),
                          !.th[t].pc = "appended"]
    /\ UNCHANGED <<now, OthersSes>>

\* if len(session["messages"]) > self.max_messages: the right-hand side
\* session["messages"][-self.max_messages:] is evaluated
UpdSlice(t) ==
    /\ ses.th[t].pc = "appended"
    /\ LET msgs == ses.obj[ses.th[t].ref]
       IN IF Len(msgs) > ses.max_messages
          THEN ses' = [ses EXCEPT !.th[t].tmp = LastN(msgs, ses.max_messages),
                                  !.th[t].pc = "sliced"]
          ELSE ses' = [ses EXCEPT !.th[t].pc = "updated"]
    /\ UNCHANGED <<now, OthersSes>>

\* session["messages"] = <the slice>
UpdAssign(t) ==
    /\ ses.th[t].pc = "sliced"
    /\ ses' = [ses EXCEPT !.obj[ses.th[t].ref] = ses.th[t].tmp,
                          !.th[t].pc = "updated"]
    /\ UNCHANGED <<now, OthersSes>>

\* updated = updater(value) for an updater returning
\* {**session, "messages": session["messages"] + [message]}
UpdCopy(t) ==
    /\ ses.th[t].pc = "got"
    /\ ses.th[t].kind = "copy"
    /\ ses' = [ses EXCEPT !.obj[ses.next_obj] =
                                Append(ses.obj[ses.th[t].ref], ses.th[t].msg),
                          !.next_obj = @ + 1,
                          !.th[t].ref = ses.next_obj,
                          !.th[t].pc = "updated"]
    /\ UNCHANGED <<now, OthersSes>>

\* await self.set(key, updated, ttl_seconds); return updated
UpdSet(t) ==
    /\ ses.th[t].pc = "updated"
    /\ ses' = [SesAfterSet(ses, ses.th[t].ref) EXCEPT
                  !.th[t].pc = "done", !.th[t].ret = "updated"]
    /\ UNCHANGED <<now, OthersSes>>

SesConcNext ==
    \/ \E t \in Threads :
          \/ \E kind \in UpdaterKinds : UpdGet(t, kind)
          \/ UpdAppend(t) \/ UpdSlice(t) \/ UpdAssign(t) \/ UpdCopy(t) \/ UpdSet(t)
    \/ SesTick

\* the elements of the list q
Range(q) == {q[i] : i \in 1..Len(q)}

\* both updates have returned the updated session
BothUpdated == \A t \in Threads : ses.th[t].pc = "done" /\ ses.th[t].ret = "updated"

\* C19: when two SessionCache.update calls (for example two add_message
\* calls) on the same session run concurrently, the stored session afterwards
\* reflects both updates: both messages are present and no update is lost.
C19_UpdateAtomic ==
    BothUpdated =>
        /\ ses.stored
        /\ \A t \in Threads : ses.th[t].msg \in Range(ses.obj[ses.cur])

(***************************************************************************)
(* Alerting.  One AlertManager with its channels and routes in place.  An  *)
(* alert is its fingerprint, severity, source and labels, the labels a set *)
(* of <<key, value>> pairs; a route's filter that is None or empty is the  *)
(* empty set (the code tests filters by truth value).  A channel's send    *)
(* may succeed, fail or raise: each way its name ends up in the result     *)
(* map.  _should_dedupe and _check_rate_limit run before send_alert first  *)
(* awaits, so a call's bookkeeping is one step.  passed lists the times of *)
(* the calls that _check_rate_limit let through in the last Minute.        *)
(***************************************************************************)
MaxAlerts == 3          \* send_alert calls made on one manager
MaxDedup == 2           \* dedup_window_seconds is drawn from 1..MaxDedup, in ticks

Minute == 2             \* the 60 seconds of _check_rate_limit, in ticks

RateLimits == {1, 2}    \* the values rate_limit_per_minute is drawn from
Fingerprints == {"f1", "f2"}
Severities == {"info", "critical"}
ChannelNames == {"slack", "pager"}      \* the channels add_channel registered
Sources == {"api", "db"}
\* the label dicts of alerts
LabelSets == {{<<"env", "prod">>}, {<<"env", "prod">>, <<"team", "a">>}}
NoRoutes == <<>>
\* add_route(channels, severities, sources, labels) calls: critical alerts to
\* the pager; alerts of the api with both labels to slack; every alert to
\* slack and to a channel never added
CriticalRoute ==
    [channels |-> {"pager"}, severities |-> {"critical"}, sources |-> {}, labels |-> {}]
LabelRoute ==
    [channels |-> {"slack"}, severities |-> {}, sources |-> {"api"},
     labels |-> {<<"env", "prod">>, <<"team", "a">>}]
CatchAllRoute ==
    [channels |-> {"slack", "email"}, severities |-> {}, sources |-> {}, labels |-> {}]
\* the route lists add_route can have built
RouteLists == {NoRoutes, <<CriticalRoute>>, <<CatchAllRoute>>}
RoutingLists ==
    {NoRoutes, <<CriticalRoute, LabelRoute>>, <<CriticalRoute, CatchAllRoute>>}

\* Alert(...): alerts that differ in fingerprint only, and alerts
\* of one fingerprint that differ in what routes filter on
PlainAlerts ==
    [fingerprint : Fingerprints, severity : {"critical"}, source : {"api"}, labels : {{}}]
RoutedAlerts ==
    [fingerprint : {"f1"}, severity : Severities, source : Sources, labels : LabelSets]

NoAlert == [fp |-> "none"]

\* AlertManager(dedup_window_seconds, rate_limit_per_minute) after its
\* add_channel and add_route calls
AlertNew(dedup_window, rate_limit, routes) ==
    [dedup_window |-> dedup_window, rate_limit |-> rate_limit, routes |-> routes,
     seen_fingerprints |-> [fp \in Fingerprints |-> None],
     sent_count |-> 0, sent_window_start |-> StartTime,
     opened |-> [fp \in Fingerprints |-> None],
     passed |-> <<>>,
     calls |-> 0, last |-> NoAlert]

AlertQuiet == al = AlertNew(1, 1, NoRoutes)

\* the comprehension of _should_dedupe: a fingerprint is kept while ts > cutoff
KeptSeenMut(ts, cutoff) == ts >= cutoff
KeptSeen(ts, cutoff) == ts > cutoff

\* _should_dedupe(alert) -> <<should dedupe, _seen_fingerprints after>>
ShouldDedupe(a, fp) ==
    LET cutoff == now - a.dedup_window
        kept == [f \in Fingerprints |->
                    IF a.seen_fingerprints[f] # None
                       /\ KeptSeen(a.seen_fingerprints[f], cutoff)
                    THEN a.seen_fingerprints[f] ELSE None]
    IN IF kept[fp] # None THEN <<TRUE, kept>>
       ELSE <<FALSE, [kept EXCEPT ![fp] = now]>>

\* _check_rate_limit() -> <<within the limit, _sent_count, _sent_window_start>>
CheckRateLimit(a) ==
    LET reset == now - a.sent_window_start > Minute
        count == IF reset THEN 0 ELSE a.sent_count
        start == IF reset THEN now ELSE a.sent_window_start
    IN IF count >= a.rate_limit THEN <<FALSE, count, start>>
       ELSE <<TRUE, count + 1, start>>

\* all(alert.labels.get(k) == v for k, v in route["labels"].items())
LabelsMatchMut(route_labels, labels) == \E kv \in route_labels : kv \in labels
LabelsMatch(route_labels, labels) == \A kv \in route_labels : kv \in labels

RECURSIVE RoutedChannels(_, _)
\* the loop of _get_channels_for_alert over the routes
RoutedChannels(routes, alert) ==
    IF routes = <<>> THEN {}
    ELSE LET route == Head(routes)
             rest == RoutedChannels(Tail(routes), alert)
         IN IF route.severities # {} /\ alert.severity \notin route.severities
            THEN rest
            ELSE IF route.sources # {} /\ alert.source \notin route.sources
            THEN rest
            ELSE IF route.labels # {} /\ ~LabelsMatch(route.labels, alert.labels)
            THEN rest
            ELSE route.channels \cup rest

\* _get_channels_for_alert(alert)
GetChannelsForAlert(a, alert) ==
    LET channels == RoutedChannels(a.routes, alert)
    IN IF channels = {} /\ a.routes = <<>> THEN ChannelNames ELSE channels

\* send_alert(alert, skip_dedupe, skip_rate_limit)
SendAlert(alert, skip_dedupe, skip_rate_limit) ==
    /\ al.calls < MaxAlerts
    /\ LET fp == alert.fingerprint
           d == IF skip_dedupe THEN <<FALSE, al.seen_fingerprints>>
                ELSE ShouldDedupe(al, fp)
           a1 == [al EXCEPT !.seen_fingerprints = d[2]]
           r == IF d[1] \/ skip_rate_limit
                THEN <<TRUE, a1.sent_count, a1.sent_window_start>>
                ELSE CheckRateLimit(a1)
           a2 == [a1 EXCEPT !.sent_count = r[2], !.sent_window_start = r[3]]
           stage == IF d[1] THEN "deduplicated"
                    ELSE IF ~r[1] THEN "rate_limited" ELSE "dispatched"
           sent == IF stage = "dispatched"
                   THEN GetChannelsForAlert(a2, alert) \cap ChannelNames
                   ELSE {}
           \* history: the calls the rate limiter passed in the last Minute
           recent == SelectSeq(al.passed, LAMBDA t : now - t < Minute)
           \* history: is this call a later one of its fingerprint's window?
           later == /\ ~skip_dedupe
                    /\ al.opened[fp] # None
                    /\ now - al.opened[fp] < al.dedup_window
           \* history: was the call before this one rate-limited, with this
           \* fingerprint, inside the dedup window, and is the rate window over?
           after_drop == /\ al.last # NoAlert
                         /\ al.last.stage = "rate_limited"
                         /\ al.last.fp = fp
                         /\ now - al.last.at < al.dedup_window
                         /\ now - al.sent_window_start > Minute
       IN al' = [a2 EXCEPT
                    !.calls = @ + 1,
                    !.opened[fp] = IF skip_dedupe \/ later THEN @ ELSE now,
                    !.passed = IF stage = "dispatched" /\ ~skip_rate_limit
                               THEN Append(recent, now) ELSE recent,
                    !.last = [fp |-> fp, alert |-> alert,
                              skip_dedupe |-> skip_dedupe, later |-> later,
                              after_drop |-> after_drop,
                              stage |-> stage, sent |-> sent, results |-> sent,
                              at |-> now]]
    /\ UNCHANGED <<now, OthersAlert>>

\* time passes between two calls
AlertTick ==
    /\ now < MaxTime
    /\ now' = now + 1
    /\ slo' = [slo EXCEPT !.cleaned = FALSE]
    /\ UNCHANGED <<OthersSLO>>

AlertNext ==
    \/ \E alert \in PlainAlerts, skip_dedupe \in BOOLEAN, skip_rate_limit \in BOOLEAN :
          SendAlert(alert, skip_dedupe, skip_rate_limit)
    \/ AlertTick

RoutingNext ==
    \/ \E alert \in RoutedAlerts, skip_dedupe \in BOOLEAN :
          SendAlert(alert, skip_dedupe, FALSE)
    \/ AlertTick

\* C11: among send_alert calls (without skip_dedupe) that carry the same
\* fingerprint and fall inside one dedup window, only the first is
\* dispatched to channels; every later one reaches no channel and returns an
\* empty result map.  The window of a fingerprint opens with the first call
\* (without skip_dedupe) made when none is open and lasts dedup_window.
C11_AlertDedup ==
    (al.last # NoAlert /\ ~al.last.skip_dedupe) =>
        /\ al.last.later => (al.last.sent = {} /\ al.last.results = {}
                             /\ al.last.stage = "deduplicated")
        /\ ~al.last.later => al.last.stage # "deduplicated"

\* a call was dropped as the later one of a window, on the window's last tick
C11_Witness ==
    /\ al.last # NoAlert
    /\ ~al.last.skip_dedupe
    /\ al.last.later
    /\ al.last.stage = "deduplicated"
    /\ al.dedup_window = 2
    /\ al.last.at - al.opened[al.last.fp] = al.dedup_window - 1

\* a rule matches an alert: every filter the rule specifies matches
RuleMatches(route, alert) ==
    /\ route.severities # {} => alert.severity \in route.severities
    /\ route.sources # {} => alert.source \in route.sources
    /\ route.labels \subseteq alert.labels
\* the union of the channels of the rules that match
MatchingChannels(routes, alert) ==
    UNION {routes[i].channels : i \in {j \in 1..Len(routes) : RuleMatches(routes[j], alert)}}

\* C23 as stated: a dispatched alert is sent to exactly the union of the
\* channels of the matching rules, to all registered channels when no rule
\* is configured, and to no channel when rules are configured and none
\* matches.
C23_RoutingAsStated ==
    (al.last # NoAlert /\ al.last.stage = "dispatched") =>
        al.last.sent = IF al.routes = NoRoutes THEN ChannelNames
                       ELSE MatchingChannels(al.routes, al.last.alert)

\* C23: a dispatched alert is sent to exactly the registered channels among
\* the union of the channels of the matching rules (a channel name of a rule
\* under which no channel was added is skipped), to all registered channels
\* when no rule is configured, and to no channel when rules are configured
\* and none matches.
C23_AlertRouting ==
    (al.last # NoAlert /\ al.last.stage = "dispatched") =>
        al.last.sent = IF al.routes = NoRoutes THEN ChannelNames
                       ELSE MatchingChannels(al.routes, al.last.alert) \cap ChannelNames

\* an alert was dispatched under two matching rules, one of them naming a
\* channel that was never added
C23_Witness ==
    /\ al.last # NoAlert
    /\ al.last.stage = "dispatched"
    /\ al.routes = <<CriticalRoute, CatchAllRoute>>
    /\ RuleMatches(CriticalRoute, al.last.alert)
    /\ al.last.sent = {"pager", "slack"}

\* C24: among the send_alert calls that do not skip the rate limit, the
\* number that pass the limiter and are dispatched in any interval of one
\* minute is at most rate_limit_per_minute.
C24_RollingRateLimit ==
    Len(SelectSeq(al.passed, LAMBDA t : now - t < Minute)) <= al.rate_limit

\* C36: when send_alert dropped an alert because the per-minute budget was
\* used up, the next send_alert with the same fingerprint, made after the
\* rate-limit window has reset and still inside the dedup window, is
\* dispatched to its routed channels.
C36_RateLimitedNotSeen ==
    (al.last # NoAlert /\ al.last.after_drop) =>
        /\ al.last.stage = "dispatched"
        /\ al.last.sent = GetChannelsForAlert(al, al.last.alert) \cap ChannelNames

(***************************************************************************)
(* Cost tracking.  One CostTracker; CostNew builds it with the default     *)
(* BudgetConfig and no on_budget_alert callback, so that _check_budgets    *)
(* changes nothing, and BudgetTracker with limits and a callback.  Costs   *)
(* are in thousandths of a dollar and token counts in thousands, which     *)
(* keeps _calculate_cost in the integers; a day is DayTicks ticks of the   *)
(* clock and every day of a behaviour lies in one month.  A limit of 0     *)
(* stands for None (the code tests limits by truth value), thresholds are  *)
(* in percent, and alerts lists the invocations of the callback.           *)
(***************************************************************************)
MaxKept == 2            \* max_records is drawn from 1..MaxKept
MaxUsage == 3           \* record_usage calls made on one tracker

DayTicks == 2           \* the length of a day, in ticks

\* the models used: one of DEFAULT_PRICING and one without pricing
Models == {"claude-3-opus", "unpriced"}
\* input_price_per_1k and output_price_per_1k, in thousandths of a dollar
InputPrice == [m \in {"claude-3-opus"} |-> 15]
OutputPrice == [m \in {"claude-3-opus"} |-> 75]
\* (input_tokens + output_tokens) * 0.00001, per thousand tokens
EstimatePrice == 10

TokenCounts == {1, 2}   \* thousands of tokens
Users == {"none", "u1"} \* user_id: None or a user

\* time.strftime("%Y-%m-%d") at the time t
DayOf(t) == (t - StartTime) \div DayTicks
Days == {DayOf(t) : t \in Times}

\* BudgetConfig.alert_thresholds, the default [0.5, 0.8, 0.95]
AlertThresholds == <<50, 80, 95>>
\* BudgetConfig(), every limit None
DefaultBudget == [daily_limit |-> 0, monthly_limit |-> 0, per_user_daily_limit |-> 0]

\* CostTracker(max_records=...)
CostNew(max_records) ==
    [max_records |-> max_records, records |-> <<>>,
     daily_costs |-> [d \in Days |-> 0],
     user_daily_costs |-> [d \in Days |-> 0],
     returned |-> [d \in Days |-> 0],
     budget_config |-> DefaultBudget, on_budget_alert |-> FALSE,
     last_alert_threshold |-> 0, alerts |-> <<>>,
     calls |-> 0, summary |-> [date |-> None]]

\* CostTracker(budget_config=..., on_budget_alert=callback, max_records=1)
BudgetTracker(budget_config) ==
    [CostNew(1) EXCEPT !.budget_config = budget_config, !.on_budget_alert = TRUE]

CostQuiet == ct = CostNew(1)

\* _calculate_cost(model, input_tokens, output_tokens, 0)
CalculateCost(model, input_tokens, output_tokens) ==
    IF model \notin DOMAIN InputPrice
    THEN (input_tokens + output_tokens) * EstimatePrice
    ELSE input_tokens * InputPrice[model] + output_tokens * OutputPrice[model]

\* the trim of record_usage
KeepRecords(records, max_records) ==
    IF Len(records) > max_records THEN LastN(records, max_records) ELSE records

\* _check_threshold(budget_type, current, limit) on the tracker c: the first
\* threshold of the list that the ratio has reached and that is above the
\* tracker's one _last_alert_threshold is alerted and remembered
CheckThreshold(c, budget_type, current, limit, date_key) ==
    LET reached == {i \in 1..Len(AlertThresholds) :
                      /\ current * 100 >= AlertThresholds[i] * limit
                      /\ AlertThresholds[i] > c.last_alert_threshold}
    IN IF ~c.on_budget_alert \/ reached = {}
       THEN c
       ELSE [c EXCEPT
               !.alerts = Append(@, [budget_type |-> budget_type,
                                     current |-> current, limit |-> limit,
                                     day |-> date_key]),
               !.last_alert_threshold = AlertThresholds[SetMin(reached)]]

\* _check_budgets(user_id) on the tracker c
CheckBudgets(c, user, date_key) ==
    LET c1 == IF c.budget_config.daily_limit # 0
              THEN CheckThreshold(c, "daily", c.daily_costs[date_key],
                                  c.budget_config.daily_limit, date_key)
              ELSE c
    IN IF user # "none" /\ c.budget_config.per_user_daily_limit # 0
       THEN CheckThreshold(c1, "user_daily", c1.user_daily_costs[date_key],
                           c.budget_config.per_user_daily_limit, date_key)
       ELSE c1

\* record_usage(model, input_tokens, output_tokens, user_id=user)
RecordUsage(model, input_tokens, output_tokens, user) ==
    /\ ct.calls < MaxUsage
    /\ LET cost == CalculateCost(model, input_tokens, output_tokens)
           record == [timestamp |-> now, model |-> model, cost |-> cost]
           date_key == DayOf(now)
       IN ct' = CheckBudgets(
                  [ct EXCEPT
                    !.records = KeepRecords(Append(@, record), ct.max_records),
                    !.daily_costs[date_key] = @ + cost,
                    !.user_daily_costs[date_key] =
                        IF user # "none" THEN @ + cost ELSE @,
                    !.returned[date_key] = @ + cost,
                    !.calls = @ + 1,
                    !.summary = [date |-> None]],
                  user, date_key)
    /\ UNCHANGED <<now, OthersCost>>

RECURSIVE TotalCost(_)
\* the total_cost loop of _create_summary
TotalCost(records) ==
    IF records = <<>> THEN 0 ELSE Head(records).cost + TotalCost(Tail(records))

\* get_daily_summary(date)
GetDailySummary(date) ==
    /\ LET day_records == SelectSeq(ct.records,
                                    LAMBDA r : DayOf(r.timestamp) = date)
       IN ct' = [ct EXCEPT !.summary =
                    [date |-> date, total_cost |-> TotalCost(day_records),
                     request_count |-> Len(day_records)]]
    /\ UNCHANGED <<now, OthersCost>>

\* time passes between two calls
CostTick ==
    /\ now < MaxTime
    /\ now' = now + 1
    /\ slo' = [slo EXCEPT !.cleaned = FALSE]
    /\ UNCHANGED <<OthersSLO>>

CostNext ==
    \/ \E model \in Models, input_tokens \in TokenCounts,
          output_tokens \in TokenCounts, user \in Users :
             RecordUsage(model, input_tokens, output_tokens, user)
    \/ \E date \in Days : GetDailySummary(date)
    \/ CostTick

\* C12: for any sequence of record_usage calls made on one day (of any
\* length, including more than max_records), get_daily_summary for that day
\* reports a total_cost equal to the sum of the costs of the records those
\* calls returned, which is also the day's value of the fast daily counter.
C12_CostConservation ==
    (ct.summary.date # None) =>
        /\ ct.summary.total_cost = ct.returned[ct.summary.date]
        /\ ct.summary.total_cost = ct.daily_costs[ct.summary.date]

\* the fast counter alone: a day's counter is the sum of the costs returned
DailyCounterConserved ==
    \A d \in Days : ct.daily_costs[d] = ct.returned[d]

(***************************************************************************)
(* Budget alerts: a tracker built with limits and a callback.              *)
(***************************************************************************)
DailyLimits == {0, 200}
MonthlyLimits == {0, 200}
PerUserDailyLimits == {0, 100}

BudgetNext ==
    \/ \E model \in Models, input_tokens \in TokenCounts,
          output_tokens \in TokenCounts, user \in Users :
             RecordUsage(model, input_tokens, output_tokens, user)
    \/ CostTick

\* monthly_spent of get_remaining_budget: the daily costs of the month
MonthlySpent == SumOver(ct.daily_costs, Days)

\* what a budget type has spent on the day d, and its limit
SpentOf(budget_type, d) ==
    IF budget_type = "daily" THEN ct.daily_costs[d] ELSE ct.user_daily_costs[d]
LimitOf(budget_type) ==
    IF budget_type = "daily" THEN ct.budget_config.daily_limit
    ELSE ct.budget_config.per_user_daily_limit

\* the thresholds the ratio spent/limit has reached
Crossed(spent, limit) ==
    {i \in 1..Len(AlertThresholds) : spent * 100 >= AlertThresholds[i] * limit}
\* the callback's invocations for a budget type made on the day d
AlertsFor(budget_type, d) ==
    {i \in 1..Len(ct.alerts) :
        ct.alerts[i].budget_type = budget_type /\ ct.alerts[i].day = d}

\* C21: for each budget type taken separately (daily, the user's daily), the
\* callback has been invoked once, with (budget_type, current, limit), for
\* each threshold that the type's ratio has crossed on the first day: an
\* alert for one budget type does not use up the threshold of another.
C21_ThresholdAlertsPerType ==
    \A budget_type \in {"daily", "user_daily"} :
        (ct.on_budget_alert /\ LimitOf(budget_type) # 0) =>
            /\ Cardinality(AlertsFor(budget_type, DayOf(StartTime)))
                  = Cardinality(Crossed(SpentOf(budget_type, DayOf(StartTime)),
                                        LimitOf(budget_type)))
            /\ \A i \in AlertsFor(budget_type, DayOf(StartTime)) :
                  ct.alerts[i].limit = LimitOf(budget_type)

\* C22: with a monthly_limit configured, once the month's accumulated cost
\* has reached the first threshold of monthly_limit the callback has been
\* invoked for the monthly budget.
C22_MonthlyLimitChecked ==
    (/\ ct.on_budget_alert
     /\ ct.budget_config.monthly_limit # 0
     /\ Crossed(MonthlySpent, ct.budget_config.monthly_limit) # {})
        => \E i \in 1..Len(ct.alerts) : ct.alerts[i].budget_type = "monthly"

(***************************************************************************)
(* Graceful degradation.  One DegradationManager with one chain of n       *)
(* fallback providers, named by their 1-based position in the list.  An    *)
(* execute call awaits the primary, each health probe and each provider,   *)
(* so it is taken in steps; what the primary, a probe or a provider does   *)
(* is an input of its step.  probed and executed record, in order, the     *)
(* providers whose is_healthy and whose execute the call has awaited;      *)
(* hist counts the calls the primary answered, the calls whose primary     *)
(* raised or timed out, and the calls that returned a fallback's result.   *)
(***************************************************************************)
MaxProviders == 3       \* the chain has 1..MaxProviders fallback providers
MaxDegCalls == 2        \* execute calls made on the chain

BreakerStates == {"none", "closed", "open"}     \* chain['circuit_breaker']
NoFallbackResult == [used_fallback |-> FALSE, fallback_level |-> None, provider |-> None]

\* the history of one execute call, before its first step
NoRun ==
    [primary |-> "none", reason |-> "none", start_level |-> 0,
     probed |-> <<>>, executed |-> <<>>, unhealthy |-> {}, failed |-> {},
     result |-> NoFallbackResult]

\* DegradationManager() after add_chain(name, primary, fallbacks, ...)
DegNew(n, primary_async, breaker) ==
    [n |-> n, primary_async |-> primary_async, breaker |-> breaker,
     primary_success |-> 0, primary_failure |-> 0, fallback_used |-> 0,
     pc |-> "idle", idx |-> 0, calls |-> 0, run |-> NoRun,
     hist |-> [answered |-> 0, failed |-> 0, fell_back |-> 0]]

DegQuiet == dg = DegNew(1, TRUE, "none")

\* `if not await provider.is_healthy(): continue`
SkipsMut(healthy) == FALSE
Skips(healthy) == ~healthy

\* the provider enumerate() yields at index idx of fallbacks[start_level:],
\* as a position in the chain
ProviderAt(start_level, idx) == start_level + idx + 1

\* level = start_level + i + 1
Level(start_level, idx) == start_level + idx + 1

\* the for loop of _execute_fallbacks at index idx: the next provider is
\* probed, or the loop is over and RuntimeError is raised
LoopAt(d, idx) ==
    IF ProviderAt(d.run.start_level, idx) <= d.n
    THEN [d EXCEPT !.pc = "probe", !.idx = idx]
    ELSE [d EXCEPT !.pc = "raised", !.idx = idx]

\* _execute_fallbacks(chain, ..., reason, start_level) up to its first await
ExecuteFallbacks(d, reason, start_level) ==
    LoopAt([d EXCEPT !.run.reason = reason, !.run.start_level = start_level], 0)

\* execute(chain_name, force_fallback=..., fallback_level=...) up to its
\* first await; fallback_level None is -1
DegExecute(force_fallback, fallback_level) ==
    /\ dg.pc \in {"idle", "returned", "raised"}
    /\ dg.calls < MaxDegCalls
    /\ LET d == [dg EXCEPT !.calls = @ + 1, !.run = NoRun, !.idx = 0]
           start_level == IF fallback_level = None THEN 0 ELSE fallback_level
       IN dg' = IF d.breaker = "open" /\ ~force_fallback
                THEN ExecuteFallbacks(d, "circuit_open", start_level)
                ELSE IF force_fallback
                THEN ExecuteFallbacks(d, "explicit", start_level)
                ELSE [d EXCEPT !.pc = "primary"]
    /\ UNCHANGED <<now, OthersDeg>>

\* the primary returns, raises, or (a coroutine function under wait_for)
\* runs into the timeout
DegPrimary(outcome) ==
    /\ dg.pc = "primary"
    /\ outcome = "timeout" => dg.primary_async
    /\ LET d == [dg EXCEPT !.run.primary = outcome]
       IN dg' = IF outcome = "ok"
                THEN [d EXCEPT !.primary_success = @ + 1, !.pc = "returned",
                               !.hist.answered = @ + 1,
                               !.run.result = [used_fallback |-> FALSE,
                                               fallback_level |-> 0,
                                               provider |-> 0]]
                ELSE ExecuteFallbacks([d EXCEPT !.primary_failure = @ + 1,
                                                !.hist.failed = @ + 1],
                                      IF outcome = "timeout" THEN "primary_timeout"
                                      ELSE "primary_failed", 0)
    /\ UNCHANGED <<now, OthersDeg>>

\* await provider.is_healthy()
DegProbe(healthy) ==
    /\ dg.pc = "probe"
    /\ LET p == ProviderAt(dg.run.start_level, dg.idx)
           d == [dg EXCEPT !.run.probed = Append(@, p),
                           !.run.unhealthy = IF healthy THEN @ ELSE @ \cup {p}]
       IN dg' = IF Skips(healthy) THEN LoopAt(d, dg.idx + 1)
                ELSE [d EXCEPT !.pc = "run"]
    /\ UNCHANGED <<now, OthersDeg>>

\* await provider.execute(*args, **kwargs): it returns or raises
DegRun(outcome) ==
    /\ dg.pc = "run"
    /\ LET p == ProviderAt(dg.run.start_level, dg.idx)
           d == [dg EXCEPT !.run.executed = Append(@, p)]
       IN dg' = IF outcome = "ok"
                THEN [d EXCEPT !.pc = "returned",
                               !.hist.fell_back = @ + 1,
                               !.run.result =
                                  [used_fallback |-> TRUE,
                                   fallback_level |-> Level(dg.run.start_level, dg.idx),
                                   provider |-> p]]
                ELSE LoopAt([d EXCEPT !.run.failed = @ \cup {p}], dg.idx + 1)
    /\ UNCHANGED <<now, OthersDeg>>

DegNext ==
    \/ \E force_fallback \in BOOLEAN, fallback_level \in {None} \cup 0..dg.n :
          DegExecute(force_fallback, fallback_level)
    \/ \E outcome \in {"ok", "raise", "timeout"} : DegPrimary(outcome)
    \/ \E healthy \in BOOLEAN : DegProbe(healthy)
    \/ \E outcome \in {"ok", "raise"} : DegRun(outcome)

\* q lists consecutive positions, starting at 1
InListOrder(q) == \A j \in 1..Len(q) : q[j] = j

\* C16: when the primary succeeds the result has used_fallback = false and
\* level 0 and no fallback provider is invoked; when the primary fails or
\* times out the providers are tried strictly in list order, a provider whose
\* health probe returns false is skipped without being executed, the first
\* provider whose execute succeeds supplies the result, and the reported
\* fallback_level is that provider's 1-based position in the chain.
C16_FallbackOrder ==
    LET r == dg.run
    IN /\ r.primary = "ok" =>
             /\ r.result = [used_fallback |-> FALSE, fallback_level |-> 0,
                            provider |-> 0]
             /\ r.probed = <<>> /\ r.executed = <<>>
       /\ r.primary \in {"raise", "timeout"} =>
             /\ InListOrder(r.probed)
             /\ \A j \in 1..Len(r.executed) : r.executed[j] \notin r.unhealthy
             /\ \A j \in 1..Len(r.executed) : \A k \in 1..Len(r.executed) :
                   j < k => r.executed[j] < r.executed[k]
             /\ \A p \in 1..Len(r.probed) :
                   (p \notin r.unhealthy /\ (p < Len(r.probed) \/ dg.pc # "run"))
                      => \E j \in 1..Len(r.executed) : r.executed[j] = p
             /\ dg.pc = "returned" =>
                   /\ r.result.used_fallback
                   /\ r.result.provider = r.executed[Len(r.executed)]
                   /\ r.result.fallback_level = r.result.provider
                   /\ \A p \in 1..(r.result.provider - 1) :
                         p \in r.unhealthy \cup r.failed
                   /\ r.result.provider \notin r.unhealthy \cup r.failed

\* the primary timed out, the first provider was unhealthy, the second
\* failed and the third supplied the result
C16_Witness ==
    /\ dg.pc = "returned"
    /\ dg.run.primary = "timeout"
    /\ dg.run.unhealthy = {1}
    /\ dg.run.failed = {2}
    /\ dg.run.executed = <<2, 3>>
    /\ dg.run.result.fallback_level = 3

\* C31: between calls the chain's primary_success is the number of calls
\* the primary answered, primary_failure the number of calls whose primary
\* raised or timed out, and fallback_used the number of calls that returned
\* a result with used_fallback = true.
C31_DegradationCounters ==
    dg.pc \in {"idle", "returned", "raised"} =>
        /\ dg.primary_success = dg.hist.answered
        /\ dg.primary_failure = dg.hist.failed
        /\ dg.fallback_used = dg.hist.fell_back

(***************************************************************************)
(* SLO tracking: one SLOTracker and the SLOManager entry that owns it.     *)
(* An event is [timestamp, is_good]; its value and metadata only feed the  *)
(* numbers the reads return, which are modelled as far as the compliance   *)
(* status needs them.  _lock is a threading.Lock (not re-entrant): a call  *)
(* that reaches "with self._lock" proceeds only when the lock is free.     *)
(* cleaned records that _cleanup_old_events has run at the current time.   *)
(***************************************************************************)
MaxEvents == 2          \* max_events is drawn from 1..MaxEvents
MaxRecords == 3         \* events recorded on one tracker

SLITypes == {"availability", "latency", "error_rate", "throughput", "quality"}
Targets == {50, 100}                \* slo.target, percent
ShortWindowSeconds == 3600          \* get_burn_rate: short_window_minutes * 60
AtRiskBudget == 20                  \* get_status: error_budget <= 20

\* SLOTracker(slo, max_events) and SLOManager.add_slo(slo)
SLONew(type, target, window_seconds, is_upper_bound, max_events) ==
    [type |-> type, target |-> target, window_seconds |-> window_seconds,
     is_upper_bound |-> is_upper_bound, max_events |-> max_events,
     events |-> <<>>, total_events |-> 0, good_events |-> 0, lock |-> "free",
     last_status |-> "compliant", callback |-> "none",
     pc |-> "idle", caller |-> "none", in_budget |-> FALSE, budget |-> "none",
     records |-> 0, cleaned |-> FALSE]

SLOQuiet == slo = SLONew("availability", 100, 1, TRUE, 1)

\* deque(maxlen=max_events).append(event): a full deque drops its first element
DequeAppendMaxlen(events, e, maxlen) ==
    IF Len(events) >= maxlen THEN Append(Tail(events), e) ELSE Append(events, e)

\* event.timestamp < cutoff
IsOld(timestamp, cutoff) == timestamp < cutoff

RECURSIVE CleanupOldEvents(_, _)
\* _cleanup_old_events(), at time t
CleanupOldEvents(t, t_at) ==
    IF t.events # <<>> /\ IsOld(Head(t.events).timestamp, t_at - t.window_seconds)
    THEN CleanupOldEvents(
             [t EXCEPT !.events = Tail(@),
                       !.total_events = @ - 1,
                       !.good_events = IF Head(t.events).is_good THEN @ - 1 ELSE @],
             t_at)
    ELSE [t EXCEPT !.cleaned = TRUE]

\* the body of record_event(is_good), under the lock
RecordEventBody(t, is_good) ==
    CleanupOldEvents(
        [t EXCEPT !.events = DequeAppendMaxlen(@, [timestamp |-> now, is_good |-> is_good],
                                               t.max_events),
                  !.total_events = @ + 1,
                  !.good_events = IF is_good THEN @ + 1 ELSE @,
                  !.records = @ + 1],
        now)

\* get_error_budget_remaining, availability branch, as the class get_status tests
AvailabilityBudget(t) ==
    LET allowed_bad_x100 == t.total_events * (100 - t.target)
        actual_bad == t.total_events - t.good_events
    IN IF allowed_bad_x100 <= 0
       THEN (IF actual_bad = 0 THEN "above" ELSE "exhausted")
       ELSE IF allowed_bad_x100 <= 100 * actual_bad THEN "exhausted"
       ELSE IF (100 - AtRiskBudget) * allowed_bad_x100 <= 100 * 100 * actual_bad
       THEN "low"
       ELSE "above"

\* get_burn_rate() > 1
BurnRateAboveOne(t) ==
    LET short == SelectSeq(t.events,
                           LAMBDA e : e.timestamp >= now - ShortWindowSeconds)
        short_total == Len(short)
        short_bad == Len(SelectSeq(short, LAMBDA e : ~e.is_good))
    IN IF short_total = 0 THEN FALSE
       ELSE IF 100 - t.target <= 0 THEN short_bad > 0
       ELSE short_bad * 100 > (100 - t.target) * short_total

\* get_status(): the compliance it determines
Compliance(t) ==
    IF t.budget = "exhausted" THEN "violated"
    ELSE IF t.budget = "low" \/ BurnRateAboveOne(t) THEN "at_risk"
    ELSE "compliant"

\* record_event(is_good), called on the tracker
RecordEvent(is_good) ==
    /\ slo.pc = "idle"
    /\ slo.lock = "free"
    /\ slo.records < MaxRecords
    /\ slo' = RecordEventBody(slo, is_good)
    /\ UNCHANGED <<now, OthersSLO>>

\* a call of get_current_value(), get_error_budget_remaining() or get_status()
SLOCall(op) ==
    /\ slo.pc = "idle"
    /\ slo' = [slo EXCEPT !.caller = op,
                          !.pc = IF op = "get_error_budget_remaining"
                                 THEN "budget_lock" ELSE "current_value_lock"]
    /\ UNCHANGED <<now, OthersSLO>>

\* SLOManager.record(slo_name, is_good, value) up to _check_status_change's
\* call of get_status(); is_good = "None" stands for the argument left out,
\* value = -1 likewise
ManagerRecord(is_good, value) ==
    /\ slo.pc = "idle"
    /\ slo.lock = "free"
    /\ slo.records < MaxRecords
    /\ LET t1 == IF is_good # "None" THEN RecordEventBody(slo, is_good = "True")
                 ELSE IF value # None
                 THEN RecordEventBody(slo, IF slo.is_upper_bound
                                           THEN value <= slo.target
                                           ELSE value >= slo.target)
                 ELSE slo
       IN slo' = [t1 EXCEPT !.caller = "manager_record", !.pc = "current_value_lock"]
    /\ UNCHANGED <<now, OthersSLO>>

\* what follows get_error_budget_remaining's return
AfterBudget(t, budget) ==
    IF t.caller = "get_error_budget_remaining"
    THEN [t EXCEPT !.pc = "idle", !.lock = "free", !.in_budget = FALSE]
    ELSE [t EXCEPT !.pc = "burn_rate_lock", !.lock = "free", !.in_budget = FALSE,
                   !.budget = budget]

\* get_current_value(): "with self._lock", cleanup, return
CurrentValueAcquire ==
    /\ slo.pc = "current_value_lock"
    /\ slo.lock = "free"
    /\ LET t1 == CleanupOldEvents(slo, now)
       IN slo' = IF slo.in_budget
                 THEN AfterBudget(t1, "above")
                 ELSE IF slo.caller = "get_current_value"
                 THEN [t1 EXCEPT !.pc = "idle"]
                 ELSE [t1 EXCEPT !.pc = "budget_lock"]
    /\ UNCHANGED <<now, OthersSLO>>

\* get_error_budget_remaining(): "with self._lock", cleanup, then by SLI type
BudgetAcquire ==
    /\ slo.pc = "budget_lock"
    /\ slo.lock = "free"
    /\ LET t1 == CleanupOldEvents(slo, now)
       IN slo' = IF t1.total_events = 0 THEN AfterBudget(t1, "above")
                 ELSE IF t1.type = "availability"
                 THEN AfterBudget(t1, AvailabilityBudget(t1))
                 ELSE [t1 EXCEPT !.lock = "held", !.in_budget = TRUE,
                                 !.pc = "current_value_lock"]
    /\ UNCHANGED <<now, OthersSLO>>

\* get_burn_rate(), the rest of get_status() and of _check_status_change()
BurnRateAcquire ==
    /\ slo.pc = "burn_rate_lock"
    /\ slo.lock = "free"
    /\ LET compliance == Compliance(slo)
       IN slo' = IF slo.caller = "manager_record" /\ compliance # slo.last_status
                 THEN [slo EXCEPT !.pc = "idle", !.budget = "none",
                                  !.last_status = compliance,
                                  !.callback = IF compliance = "violated"
                                               THEN "on_violation"
                                               ELSE IF compliance = "at_risk"
                                               THEN "on_at_risk" ELSE "none"]
                 ELSE [slo EXCEPT !.pc = "idle", !.budget = "none",
                                  !.callback = "none"]
    /\ UNCHANGED <<now, OthersSLO>>

\* time.time() advances between calls
SLOTick ==
    /\ slo.pc = "idle"
    /\ now < MaxTime
    /\ now' = now + 1
    /\ slo' = [slo EXCEPT !.cleaned = FALSE]
    /\ UNCHANGED <<OthersSLO>>

\* the steps of a call in progress
SLOStep == CurrentValueAcquire \/ BudgetAcquire \/ BurnRateAcquire

SLONext ==
    \/ \E is_good \in BOOLEAN : RecordEvent(is_good)
    \/ \E op \in {"get_current_value", "get_error_budget_remaining", "get_status"} :
          SLOCall(op)
    \/ \E is_good \in {"True", "False", "None"} :
          \E value \in {None, slo.target, slo.target + 1} :
             ManagerRecord(is_good, value)
    \/ CurrentValueAcquire
    \/ BudgetAcquire
    \/ BurnRateAcquire
    \/ SLOTick

\* C9: for an SLO of any SLI type with at least one event in its window,
\* get_error_budget_remaining, get_status and SLOManager.record all complete
\* and return: a call in progress always has a next step.
C9_SLONonBlocking == (slo.pc # "idle") => ENABLED SLOStep

\* number of stored events with is_good = true
GoodStored(events) == Len(SelectSeq(events, LAMBDA e : e.is_good))

\* C10: after every record_event and after every read's cleanup,
\* _total_events equals the number of events stored in the deque,
\* _good_events equals the number of stored events with is_good = true, and
\* every stored event satisfies now - timestamp <= window_seconds, for any
\* number of recorded events, including more than max_events.
C10_CountersMirrorDeque ==
    slo.cleaned =>
        /\ slo.total_events = Len(slo.events)
        /\ slo.good_events = GoodStored(slo.events)
        /\ \A i \in 1..Len(slo.events) :
              now - slo.events[i].timestamp <= slo.window_seconds

(***************************************************************************)
(* Specifications: one per primitive; the others stay as constructed.      *)
(***************************************************************************)
RLInit ==
    /\ now = StartTime
    /\ RLConfigured
    /\ RLConstructed
    /\ CBQuiet
    /\ RTQuiet
    /\ CtxQuiet
    /\ CacheQuiet
    /\ SLOQuiet
    /\ RedisQuiet
    /\ ConcQuiet
    /\ SesQuiet
    /\ AlertQuiet
    /\ CostQuiet
    /\ DegQuiet
    /\ TierQuiet

SpecRL == RLInit /\ [][RLNext]_vars

SpecTB == RLInit /\ [][TBNext]_vars

ConcInit ==
    /\ now = StartTime
    /\ RLConfigured
    /\ RLConstructed
    /\ cc = CcNew
    /\ RedisQuiet
    /\ CBQuiet
    /\ RTQuiet
    /\ CtxQuiet
    /\ CacheQuiet
    /\ SLOQuiet
    /\ SesQuiet
    /\ AlertQuiet
    /\ CostQuiet
    /\ DegQuiet
    /\ TierQuiet

SpecConc == ConcInit /\ [][ConcNext]_vars

RedisInit ==
    /\ now = StartTime
    /\ rl_limit \in 1..MaxLimit
    /\ rl_window \in 1..MaxWindow
    /\ rl_burst \in 1..MaxLimit
    /\ RLConstructed
    /\ rds = RedisNew
    /\ CBQuiet
    /\ RTQuiet
    /\ CtxQuiet
    /\ CacheQuiet
    /\ SLOQuiet
    /\ ConcQuiet
    /\ SesQuiet
    /\ AlertQuiet
    /\ CostQuiet
    /\ DegQuiet
    /\ TierQuiet

SpecRedisTB == RedisInit /\ [][RedisNext]_vars

TierInit ==
    /\ now = StartTime
    /\ \E shared_backend \in BOOLEAN, default_prefix \in BOOLEAN, window \in 1..MaxWindow :
          mt = TierNew(shared_backend, default_prefix, window)
    /\ RLQuiet
    /\ RedisQuiet
    /\ ConcQuiet
    /\ CBQuiet
    /\ RTQuiet
    /\ CtxQuiet
    /\ CacheQuiet
    /\ SesQuiet
    /\ AlertQuiet
    /\ CostQuiet
    /\ DegQuiet
    /\ SLOQuiet

SpecTier == TierInit /\ [][TierNext]_vars

CBInit ==
    /\ now = StartTime
    /\ \E ft \in 2..MaxThreshold, ws \in 2..MaxWindowSize :
          cb = CBNew(ft, MaxSuccess, MaxTimeout, ws)
    /\ cbh = CBHistNew
    /\ RLQuiet
    /\ RTQuiet
    /\ CtxQuiet
    /\ CacheQuiet
    /\ SLOQuiet
    /\ RedisQuiet
    /\ ConcQuiet
    /\ SesQuiet
    /\ AlertQuiet
    /\ CostQuiet
    /\ DegQuiet
    /\ TierQuiet

SpecCB == CBInit /\ [][CBNext]_vars

\* a breaker with observers, every call of its interface
CBObsNext ==
    \/ CanExecute
    \/ RecordSuccess
    \/ \E exception \in BOOLEAN : RecordFailure(exception)
    \/ ReadState
    \/ Reset
    \/ CBTick

CBObsInit ==
    /\ now = StartTime
    /\ \E ft \in 2..MaxThreshold, ws \in 2..MaxWindowSize,
          on_state_change \in ObserverKinds \ {"none"},
          on_failure \in ObserverKinds \ {"records"} :
          cb = CBObserved(ft, ws, on_state_change, on_failure)
    /\ cbh = CBHistNew
    /\ RLQuiet
    /\ RTQuiet
    /\ CtxQuiet
    /\ CacheQuiet
    /\ SLOQuiet
    /\ RedisQuiet
    /\ ConcQuiet
    /\ SesQuiet
    /\ AlertQuiet
    /\ CostQuiet
    /\ DegQuiet
    /\ TierQuiet
SpecCBObs == CBObsInit /\ [][CBObsNext]_vars

RTInit ==
    /\ now = StartTime
    /\ \E ma \in 1..MaxAttempts, strategy \in Strategies, jitter \in BOOLEAN,
          md \in MaxDelays, tt \in TotalTimeouts, pred \in BOOLEAN :
          rt = RTNew(ma, strategy, jitter, md, tt, pred)
    /\ RLQuiet
    /\ CBQuiet
    /\ CtxQuiet
    /\ CacheQuiet
    /\ SLOQuiet
    /\ RedisQuiet
    /\ ConcQuiet
    /\ SesQuiet
    /\ AlertQuiet
    /\ CostQuiet
    /\ DegQuiet
    /\ TierQuiet

SpecRT == RTInit /\ [][RTNext]_vars

CtxInit ==
    /\ now = StartTime
    /\ ctx \in CtxConfigs
    /\ RLQuiet
    /\ CBQuiet
    /\ RTQuiet
    /\ CacheQuiet
    /\ SLOQuiet
    /\ RedisQuiet
    /\ ConcQuiet
    /\ SesQuiet
    /\ AlertQuiet
    /\ CostQuiet
    /\ DegQuiet
    /\ TierQuiet

SpecCtx == CtxInit /\ [][CtxNext]_vars

CacheInit ==
    /\ now = StartTime
    /\ \E max_size \in 1..MaxSize : cache = CacheNew(max_size)
    /\ ch = ChNew
    /\ RLQuiet
    /\ CBQuiet
    /\ RTQuiet
    /\ CtxQuiet
    /\ SLOQuiet
    /\ RedisQuiet
    /\ ConcQuiet
    /\ SesQuiet
    /\ AlertQuiet
    /\ CostQuiet
    /\ DegQuiet
    /\ TierQuiet

SpecCache == CacheInit /\ [][CacheNext]_vars

LruInit ==
    /\ now = StartTime
    /\ \E max_size \in 1..Cardinality(LruKeys) : cache = CacheNew(max_size)
    /\ ch = ChOver(LruKeys, MaxLruOps)
    /\ RLQuiet
    /\ CBQuiet
    /\ RTQuiet
    /\ CtxQuiet
    /\ SLOQuiet
    /\ RedisQuiet
    /\ ConcQuiet
    /\ SesQuiet
    /\ AlertQuiet
    /\ CostQuiet
    /\ DegQuiet
    /\ TierQuiet

SpecLRU == LruInit /\ [][LruNext]_vars

SesInit ==
    /\ now = StartTime
    /\ \E ttl \in 1..MaxTtl, mm \in 0..MaxMessages : ses = SesNew(ttl, mm)
    /\ RLQuiet
    /\ RedisQuiet
    /\ ConcQuiet
    /\ CBQuiet
    /\ RTQuiet
    /\ CtxQuiet
    /\ CacheQuiet
    /\ SLOQuiet
    /\ AlertQuiet
    /\ CostQuiet
    /\ DegQuiet
    /\ TierQuiet

SpecSession == SesInit /\ [][SesNext]_vars

SesCtxInit ==
    /\ now = StartTime
    /\ \E ttl \in 1..MaxTtl, mm \in 1..MaxMessages : ses = SesNew(ttl, mm)
    /\ RLQuiet
    /\ RedisQuiet
    /\ ConcQuiet
    /\ CBQuiet
    /\ RTQuiet
    /\ CtxQuiet
    /\ CacheQuiet
    /\ AlertQuiet
    /\ CostQuiet
    /\ DegQuiet
    /\ SLOQuiet
    /\ TierQuiet

SpecSessionCtx == SesCtxInit /\ [][SesCtxNext]_vars

SesConcInit ==
    /\ now = StartTime
    /\ \E ttl \in 1..MaxTtl, mm \in 2..MaxMessages, k \in 0..MaxMessages :
          k <= mm /\ ses = SesPreloaded(ttl, mm, k)
    /\ RLQuiet
    /\ RedisQuiet
    /\ ConcQuiet
    /\ CBQuiet
    /\ RTQuiet
    /\ CtxQuiet
    /\ CacheQuiet
    /\ SLOQuiet
    /\ AlertQuiet
    /\ CostQuiet
    /\ DegQuiet
    /\ TierQuiet

SpecSessionConc == SesConcInit /\ [][SesConcNext]_vars

AlertInit ==
    /\ now = StartTime
    /\ \E dw \in 1..MaxDedup, rl \in RateLimits, routes \in RouteLists :
          al = AlertNew(dw, rl, routes)
    /\ RLQuiet
    /\ RedisQuiet
    /\ ConcQuiet
    /\ CBQuiet
    /\ RTQuiet
    /\ CtxQuiet
    /\ CacheQuiet
    /\ SesQuiet
    /\ SLOQuiet
    /\ CostQuiet
    /\ DegQuiet
    /\ TierQuiet

SpecAlert == AlertInit /\ [][AlertNext]_vars

RoutingInit ==
    /\ now = StartTime
    /\ \E routes \in RoutingLists : al = AlertNew(1, 2, routes)
    /\ RLQuiet
    /\ RedisQuiet
    /\ ConcQuiet
    /\ CBQuiet
    /\ RTQuiet
    /\ CtxQuiet
    /\ CacheQuiet
    /\ SesQuiet
    /\ SLOQuiet
    /\ CostQuiet
    /\ DegQuiet
    /\ TierQuiet

SpecRouting == RoutingInit /\ [][RoutingNext]_vars

CostInit ==
    /\ now = StartTime
    /\ \E mr \in 1..MaxKept : ct = CostNew(mr)
    /\ RLQuiet
    /\ RedisQuiet
    /\ ConcQuiet
    /\ CBQuiet
    /\ RTQuiet
    /\ CtxQuiet
    /\ CacheQuiet
    /\ SesQuiet
    /\ AlertQuiet
    /\ SLOQuiet
    /\ DegQuiet
    /\ TierQuiet

SpecCost == CostInit /\ [][CostNext]_vars

BudgetInit ==
    /\ now = StartTime
    /\ \E dl \in DailyLimits, ml \in MonthlyLimits, ul \in PerUserDailyLimits :
          ct = BudgetTracker([daily_limit |-> dl, monthly_limit |-> ml,
                              per_user_daily_limit |-> ul])
    /\ RLQuiet
    /\ RedisQuiet
    /\ ConcQuiet
    /\ CBQuiet
    /\ RTQuiet
    /\ CtxQuiet
    /\ CacheQuiet
    /\ SesQuiet
    /\ AlertQuiet
    /\ SLOQuiet
    /\ DegQuiet
    /\ TierQuiet

SpecBudget == BudgetInit /\ [][BudgetNext]_vars

DegInit ==
    /\ now = StartTime
    /\ \E n \in 1..MaxProviders, primary_async \in BOOLEAN, breaker \in BreakerStates :
          dg = DegNew(n, primary_async, breaker)
    /\ RLQuiet
    /\ RedisQuiet
    /\ ConcQuiet
    /\ CBQuiet
    /\ RTQuiet
    /\ CtxQuiet
    /\ CacheQuiet
    /\ SesQuiet
    /\ AlertQuiet
    /\ CostQuiet
    /\ SLOQuiet
    /\ TierQuiet

SpecDeg == DegInit /\ [][DegNext]_vars

SLOInit ==
    /\ now = StartTime
    /\ \E type \in SLITypes, target \in Targets, window_seconds \in 1..MaxWindow,
          is_upper_bound \in BOOLEAN, max_events \in 1..MaxEvents :
          slo = SLONew(type, target, window_seconds, is_upper_bound, max_events)
    /\ RLQuiet
    /\ CBQuiet
    /\ RTQuiet
    /\ CtxQuiet
    /\ CacheQuiet
    /\ RedisQuiet
    /\ ConcQuiet
    /\ SesQuiet
    /\ AlertQuiet
    /\ CostQuiet
    /\ DegQuiet
    /\ TierQuiet

SpecSLO == SLOInit /\ [][SLONext]_vars

====
